---- MODULE Spec2Model ----
(***************************************************************************)
(* py3dblox: the parsing / validation / path-resolution core of the 3D     *)
(* Blox readers (base_parser.py, dbv_parser.py, dbx_parser.py,             *)
(* bmap_parser.py).                                                        *)
(*                                                                         *)
(* Text is a sequence of one-character strings.  A decoded YAML document   *)
(* is a sequence of <<key, node>> pairs in document order; yaml.safe_load  *)
(* is the external decoder and is modelled only by the mapping it returns. *)
(***************************************************************************)
EXTENDS Integers, Sequences, FiniteSets, TLC

VARIABLES
    call,             \* the operation that was called
    pc,               \* position of the running call
    content,          \* parse_defines: the text handed to it
    lines,            \* parse_defines / _parse_content: content.splitlines()
    line_number,      \* number of lines of `lines` consumed so far
    defines,          \* BaseParser._defines, an insertion-ordered dict <<key, value>>
    processed_lines,  \* parse_defines: processed_lines
    current_file_path,\* BaseParser.current_file_path: None or the path text
    path_pattern,     \* the path / path_pattern argument of resolve_path(s)
    fs,               \* the filesystem the call sees
    root,             \* _parse_yaml_content: what yaml.safe_load returned
    data,             \* the data object under construction
    result,           \* what the call returned or raised
    log,              \* messages handed to logger.error, in order
    filename_arg,     \* the filename argument of the running parse / parse_file call
    calls,            \* number of parse_file calls started on the parser instance
    running,          \* the thread that runs: its call and parser are the variables above
    other             \* the call and parser of the thread that waits, NoThread if none

textVars == <<content, lines, line_number, defines, processed_lines>>

pathVars == <<current_file_path, path_pattern, fs>>

yamlVars == <<root, data>>

threadVars == <<running, other>>

callVars == <<filename_arg, calls, threadVars>>

NoThread == [pc |-> "none"]

vars == <<call, pc, textVars, pathVars, yamlVars, result, log, callVars>>

\* Python None, where a text could stand: no text is this sequence
None == <<"None">>

NoResult == [kind |-> "none"]

Return(v) == [kind |-> "return", value |-> v]

\* raise ParserError(msg) / raise ValueError(msg) / raise IOError(msg)
Raise(exc, msg) == [kind |-> "raise", exc |-> exc, msg |-> msg]

\* the pieces of a formatted message: literal text, an interpolated key of
\* the document, an interpolated text
Lit(s) == [lit |-> s]

Named(n) == [name |-> n]

Text(t) == [text |-> t]

\* no document decoded, no data object built
NoDocument == [t |-> "none"]

NoData == [kind |-> "none"]

(***************************************************************************)
(* Python str primitives                                                   *)
(***************************************************************************)
NL == "\n"

IsSpace(c) == c \in {" ", "\t"}

startswith(s, p) == Len(s) >= Len(p) /\ SubSeq(s, 1, Len(p)) = p

endswith(s, p) == Len(s) >= Len(p) /\ SubSeq(s, Len(s) - Len(p) + 1, Len(s)) = p

RECURSIVE lstrip(_)
lstrip(s) == IF s # <<>> /\ IsSpace(s[1]) THEN lstrip(Tail(s)) ELSE s

RECURSIVE rstrip(_)
rstrip(s) ==
    IF s # <<>> /\ IsSpace(s[Len(s)]) THEN rstrip(SubSeq(s, 1, Len(s) - 1)) ELSE s

strip(s) == rstrip(lstrip(s))

\* str.find(c) for a single character, 1-based; 0 when absent
find(s, c) ==
    IF \E i \in 1..Len(s) : s[i] = c
    THEN CHOOSE i \in 1..Len(s) : s[i] = c /\ \A j \in 1..(i - 1) : s[j] # c
    ELSE 0

\* sub in s
contains(s, sub) ==
    \E i \in 1..(Len(s) - Len(sub) + 1) : SubSeq(s, i, i + Len(sub) - 1) = sub

\* str.replace(old, new) for a non-empty old: leftmost, non-overlapping
RECURSIVE str_replace(_, _, _)
str_replace(s, old, new) ==
    IF Len(s) < Len(old) THEN s
    ELSE IF SubSeq(s, 1, Len(old)) = old
         THEN new \o str_replace(SubSeq(s, Len(old) + 1, Len(s)), old, new)
         ELSE <<s[1]>> \o str_replace(Tail(s), old, new)

\* index of the first whitespace character of s, 0 when there is none
FirstSpace(s) ==
    IF \E i \in 1..Len(s) : IsSpace(s[i])
    THEN CHOOSE i \in 1..Len(s) : IsSpace(s[i]) /\ \A j \in 1..(i - 1) : ~IsSpace(s[j])
    ELSE 0

\* str.split(maxsplit=1)
split_maxsplit1(s) ==
    LET t == lstrip(s)
        w == FirstSpace(t)
    IN  IF t = <<>> THEN <<>>
        ELSE IF w = 0 THEN <<t>>
        ELSE LET rest == lstrip(SubSeq(t, w, Len(t)))
             IN  IF rest = <<>> THEN <<SubSeq(t, 1, w - 1)>>
                 ELSE <<SubSeq(t, 1, w - 1), rest>>

\* str.split(): the maximal runs of non-whitespace characters
RECURSIVE split(_)
split(s) ==
    LET t == lstrip(s)
        w == FirstSpace(t)
    IN  IF t = <<>> THEN <<>>
        ELSE IF w = 0 THEN <<t>>
        ELSE <<SubSeq(t, 1, w - 1)>> \o split(SubSeq(t, w, Len(t)))

\* str.splitlines() for the line boundary "\n"
RECURSIVE splitlines(_)
splitlines(s) ==
    LET n == find(s, NL)
    IN  IF s = <<>> THEN <<>>
        ELSE IF n = 0 THEN <<s>>
        ELSE <<SubSeq(s, 1, n - 1)>> \o splitlines(SubSeq(s, n + 1, Len(s)))

\* '\n'.join(ls)
RECURSIVE join_lines(_)
join_lines(ls) ==
    IF ls = <<>> THEN <<>>
    ELSE IF Len(ls) = 1 THEN ls[1]
    ELSE ls[1] \o <<NL>> \o join_lines(Tail(ls))

\* str.split(sep) for a one-character separator: empty pieces are kept
RECURSIVE split_sep(_, _)
split_sep(s, sep) ==
    LET n == find(s, sep)
    IN  IF n = 0 THEN <<s>>
        ELSE <<SubSeq(s, 1, n - 1)>> \o split_sep(SubSeq(s, n + 1, Len(s)), sep)

(***************************************************************************)
(* Insertion-ordered dict of <<key, value>> pairs                          *)
(***************************************************************************)
DictKeys(d) == {d[i][1] : i \in 1..Len(d)}

DictIndex(d, k) == CHOOSE i \in 1..Len(d) : d[i][1] = k

DictGet(d, k) == d[DictIndex(d, k)][2]

\* d[k] = v: a new key goes last, an existing key keeps its position
DictSet(d, k, v) ==
    IF k \in DictKeys(d)
    THEN [d EXCEPT ![DictIndex(d, k)] = <<k, v>>]
    ELSE Append(d, <<k, v>>)

(***************************************************************************)
(* BaseParser.parse_defines                                                *)
(***************************************************************************)
DefinePrefix == <<"#", "!", "d", "e", "f", "i", "n", "e">>

IsDirective(line) == startswith(line, DefinePrefix)

\* parts = line[8:].strip().split(maxsplit=1)
DefineParts(line) ==
    split_maxsplit1(strip(SubSeq(line, Len(DefinePrefix) + 1, Len(line))))

\* a directive branch that binds only when the line has exactly two tokens
DefinesAfter_ExactlyTwo(defs, line) ==
    IF Len(split(SubSeq(line, Len(DefinePrefix) + 1, Len(line)))) = 2
    THEN DictSet(defs, split(SubSeq(line, Len(DefinePrefix) + 1, Len(line)))[1],
                 split(SubSeq(line, Len(DefinePrefix) + 1, Len(line)))[2])
    ELSE defs

\* a directive branch that puts a key defined again at the end of the table
DefinesAfter_Reinserted(defs, line) ==
    IF Len(DefineParts(line)) = 2
    THEN Append(SelectSeq(defs, LAMBDA p : p[1] # strip(DefineParts(line)[1])),
                <<strip(DefineParts(line)[1]), strip(DefineParts(line)[2])>>)
    ELSE defs

\* the `if line.startswith("#!define")` branch: the symbol table afterwards
DefinesAfter(defs, line) ==
    LET parts == DefineParts(line)
    IN  IF Len(parts) = 2
        THEN DictSet(defs, strip(parts[1]), strip(parts[2]))
        ELSE defs

\* a resolve loop that replaces only the first occurrence of each macro
RECURSIVE ResolveLineFirstOnly(_, _)
ResolveLineFirstOnly(line, defs) ==
    IF defs = <<>> THEN line
    ELSE LET k == defs[1][1]
             hit == IF contains(line, k)
                    THEN CHOOSE i \in 1..Len(line) :
                            /\ SubSeq(line, i, i + Len(k) - 1) = k
                            /\ \A j \in 1..(i - 1) : SubSeq(line, j, j + Len(k) - 1) # k
                    ELSE 0
             once == IF hit = 0 THEN line
                     ELSE SubSeq(line, 1, hit - 1) \o defs[1][2]
                            \o SubSeq(line, hit + Len(k), Len(line))
         IN  ResolveLineFirstOnly(once, Tail(defs))

\* a resolve loop that runs over the symbol table a second time
RECURSIVE RescanPass(_, _)
RescanPass(line, defs) ==
    IF defs = <<>> THEN line
    ELSE RescanPass(str_replace(line, defs[1][1], defs[1][2]), Tail(defs))

ResolveLineRescan(line, defs) == RescanPass(RescanPass(line, defs), defs)

\* for macro, replacement in self._defines.items(): line = line.replace(...)
RECURSIVE ResolveLine(_, _)
ResolveLine(line, defs) ==
    IF defs = <<>> THEN line
    ELSE ResolveLine(str_replace(line, defs[1][1], defs[1][2]), Tail(defs))

(***************************************************************************)
(* pathlib.Path on a POSIX filesystem                                      *)
(*                                                                         *)
(* A Path is [abs, parts]; a filesystem is [dirs, files, links] where dirs *)
(* and files are sets of absolute part sequences and links is a set of     *)
(* <<link, target>> pairs of absolute part sequences (symbolic links).     *)
(***************************************************************************)
SLASH == "/"

STAR == "*"

\* Path(text): "" and "." components are dropped, ".." is kept
PathOf(text) ==
    [abs |-> startswith(text, <<SLASH>>),
     parts |-> SelectSeq(split_sep(text, SLASH), LAMBDA x : x # <<>> /\ x # <<".">>)]

RECURSIVE join_sep(_)
join_sep(parts) ==
    IF parts = <<>> THEN <<>>
    ELSE IF Len(parts) = 1 THEN parts[1]
    ELSE parts[1] \o <<SLASH>> \o join_sep(Tail(parts))

\* str(path)
PathStr(p) ==
    IF p.abs THEN <<SLASH>> \o join_sep(p.parts)
    ELSE IF p.parts = <<>> THEN <<".">>
    ELSE join_sep(p.parts)

\* path.parent
PathParent(p) ==
    IF p.parts = <<>> THEN p
    ELSE [p EXCEPT !.parts = SubSeq(p.parts, 1, Len(p.parts) - 1)]

\* path.name
PathName(p) == IF p.parts = <<>> THEN <<>> ELSE p.parts[Len(p.parts)]

\* a / b
PathJoin(a, b) == IF b.abs THEN b ELSE [a EXCEPT !.parts = a.parts \o b.parts]

\* os.getcwd()
Cwd == [abs |-> TRUE, parts |-> << <<"w">> >>]

\* path.absolute(): prefixed with the working directory, nothing collapsed
PathAbsolute(p) == PathJoin(Cwd, p)

LinkTarget(f, at) == (CHOOSE l \in f.links : l[1] = at)[2]

\* os.path.realpath on absolute parts: `seen` is the resolved prefix, `todo`
\* the components still to walk; a symbolic link restarts at its target
RECURSIVE RealParts(_, _, _)
RealParts(f, seen, todo) ==
    IF todo = <<>> THEN seen
    ELSE IF todo[1] = <<".", ".">>
         THEN RealParts(f, SubSeq(seen, 1, Len(seen) - 1), Tail(todo))
    ELSE IF \E l \in f.links : l[1] = Append(seen, todo[1])
         THEN RealParts(f, <<>>, LinkTarget(f, Append(seen, todo[1])) \o Tail(todo))
    ELSE RealParts(f, Append(seen, todo[1]), Tail(todo))

\* path.resolve(): absolute, symbolic links followed, ".." collapsed
PathResolve(f, p) ==
    [abs |-> TRUE, parts |-> RealParts(f, <<>>, PathAbsolute(p).parts)]

\* where the operating system finds an absolute or cwd-relative path
RealOf(f, p) == RealParts(f, <<>>, PathAbsolute(p).parts)

\* path.exists() / path.is_dir() / path.is_file(): links are followed
PathExists(f, p) == RealOf(f, p) \in f.dirs \cup f.files \/ RealOf(f, p) = <<>>

PathIsDir(f, p) == RealOf(f, p) \in f.dirs \/ RealOf(f, p) = <<>>

PathIsFile(f, p) == RealOf(f, p) \in f.files

\* the names directory.iterdir() yields, as a set
DirEntries(f, d) ==
    LET at == RealOf(f, d)
    IN  { e[Len(e)] : e \in { x \in f.dirs \cup f.files \cup {l[1] : l \in f.links} :
                                Len(x) = Len(at) + 1 /\ SubSeq(x, 1, Len(at)) = at } }

NoFiles == [dirs |-> {}, files |-> {}, links |-> {}]

\* every ordering of a finite set, as sequences without repetition
Orderings(S) ==
    { q \in [1..Cardinality(S) -> S] : \A i, j \in 1..Cardinality(S) : q[i] = q[j] => i = j }

(***************************************************************************)
(* BaseParser.resolve_path / resolve_paths / _matches_pattern / log_error  *)
(***************************************************************************)
\* log_error(message): the message it logs and raises
ErrorMessage(message) == <<Lit("Parser Error: ")>> \o message

\* log_error(message): raise ParserError(full_message)
log_error(message) == Raise("ParserError", ErrorMessage(message))

\* a resolve_path that joins to the current file instead of its directory
resolve_path_NoParent(f, cfp, path) ==
    LET path_obj == PathOf(path)
    IN  IF path_obj.abs THEN path_obj
        ELSE IF cfp = None THEN PathAbsolute(path_obj)
        ELSE PathResolve(f, PathJoin(PathOf(cfp), path_obj))

resolve_path(f, cfp, path) ==
    LET path_obj == PathOf(path)
    IN  IF path_obj.abs THEN path_obj
        ELSE IF cfp = None THEN PathAbsolute(path_obj)
        ELSE PathResolve(f, PathJoin(PathParent(PathOf(cfp)), path_obj))

\* a matcher without the length test: prefix and suffix may overlap
matches_pattern_Overlap(filename, pattern) ==
    IF find(pattern, STAR) = 0 THEN filename = pattern
    ELSE LET star_pos == find(pattern, STAR)
             prefix == SubSeq(pattern, 1, star_pos - 1)
             suffix == SubSeq(pattern, star_pos + 1, Len(pattern))
         IN  startswith(filename, prefix) /\ endswith(filename, suffix)

matches_pattern(filename, pattern) ==
    IF find(pattern, STAR) = 0 THEN filename = pattern
    ELSE LET star_pos == find(pattern, STAR)
             prefix == SubSeq(pattern, 1, star_pos - 1)
             suffix == SubSeq(pattern, star_pos + 1, Len(pattern))
         IN  IF Len(filename) < Len(prefix) + Len(suffix) THEN FALSE
             ELSE startswith(filename, prefix) /\ endswith(filename, suffix)

\* matching_files for one order in which iterdir() yields the entries
MatchingFiles(f, directory, pattern, order) ==
    LET keep == SelectSeq(order, LAMBDA n :
                    /\ PathIsFile(f, PathJoin(directory, [abs |-> FALSE, parts |-> <<n>>]))
                    /\ matches_pattern(n, pattern))
    IN  [i \in 1..Len(keep) |->
            PathStr(PathJoin(directory, [abs |-> FALSE, parts |-> <<keep[i]>>]))]

\* the outcomes of resolve_paths(path_pattern): one per iterdir() order
resolve_paths(f, cfp, pattern_text) ==
    LET resolved == resolve_path(f, cfp, pattern_text)
        directory == PathParent(resolved)
        pattern == PathName(resolved)
    IN  IF find(pattern_text, STAR) # 0
        THEN IF ~PathExists(f, directory) \/ ~PathIsDir(f, directory)
             THEN { log_error(<<Lit("Directory does not exist: "), Text(PathStr(directory))>>) }
             ELSE { Return(MatchingFiles(f, directory, pattern, order)) :
                        order \in Orderings(DirEntries(f, directory)) }
        ELSE { Return(<<PathStr(resolved)>>) }

(***************************************************************************)
(* Inputs of parse_defines                                                 *)
(***************************************************************************)
MaxLines == 3

SeqsUpTo(S, n) == UNION {[1..k -> S] : k \in 0..n}

\* the text after "#!define" on a directive line
DirectiveRests ==
    { <<" ", "A", " ", "B">>,            \* A -> B
      <<" ", "B", " ", "c">>,            \* B -> c
      <<" ", "A", " ", "A", "A">>,       \* A -> AA
      <<" ", "A", "B", " ", "c">>,       \* AB -> c
      <<" ", "A", " ", "B", " ", "c">>,  \* three tokens
      <<" ", "A">>,                      \* one token
      <<>> }                             \* no token

PlainLines ==
    { <<"A">>, <<"B">>, <<"A", "c", "A">>, <<"A", "B">>, <<>>,
      <<" ">> \o DefinePrefix \o <<" ", "A", " ", "B">> }

InputLines == {DefinePrefix \o r : r \in DirectiveRests} \cup PlainLines

\* a symbol table left behind by an earlier call on the same parser
StaleDefines == << <<(<<"A">>), (<<"c", "c">>)>> >>

InitDefines ==
    /\ call = "parse_defines"
    /\ pc = "parse_defines"
    /\ current_file_path = None
    /\ path_pattern = <<>>
    /\ fs = NoFiles
    /\ \E ls \in SeqsUpTo(InputLines, MaxLines), nl \in {<<>>, <<NL>>} :
            content = join_lines(ls) \o nl
    /\ lines = <<>>
    /\ line_number = 0
    /\ defines \in {<<>>, StaleDefines}
    /\ processed_lines = <<>>
    /\ root = NoDocument
    /\ data = NoData
    /\ result = NoResult
    /\ log = <<>>
    /\ filename_arg = current_file_path
    /\ calls = 0
    /\ running = 1
    /\ other = NoThread

\* a parse_defines that does not clear the table
ParseDefinesEnter_TableKept ==
    /\ pc = "parse_defines"
    /\ processed_lines' = <<>>
    /\ lines' = splitlines(content)
    /\ line_number' = 0
    /\ pc' = "for_line"
    /\ UNCHANGED <<call, callVars, yamlVars, content, defines, pathVars, result, log>>

\* self._defines.clear(); processed_lines = []; content.splitlines()
ParseDefinesEnter ==
    /\ pc = "parse_defines"
    /\ defines' = <<>>
    /\ processed_lines' = <<>>
    /\ lines' = splitlines(content)
    /\ line_number' = 0
    /\ pc' = "for_line"
    /\ UNCHANGED <<call, callVars, yamlVars, content, pathVars, result, log>>

\* one iteration of the loop on a line that starts with "#!define"
ParseDefinesDirective ==
    /\ pc = "for_line"
    /\ line_number < Len(lines)
    /\ IsDirective(lines[line_number + 1])
    /\ defines' = DefinesAfter(defines, lines[line_number + 1])
    /\ line_number' = line_number + 1
    /\ UNCHANGED <<call, callVars, yamlVars, pc, content, lines, processed_lines, pathVars,
                   result, log>>

\* one iteration of the loop on any other line
ParseDefinesResolve ==
    /\ pc = "for_line"
    /\ line_number < Len(lines)
    /\ ~IsDirective(lines[line_number + 1])
    /\ processed_lines' = Append(processed_lines, ResolveLine(lines[line_number + 1], defines))
    /\ line_number' = line_number + 1
    /\ UNCHANGED <<call, callVars, yamlVars, pc, content, lines, defines, pathVars, result, log>>

\* return '\n'.join(processed_lines)
ParseDefinesReturn ==
    /\ pc = "for_line"
    /\ line_number = Len(lines)
    /\ result' = Return(join_lines(processed_lines))
    /\ pc' = "done"
    /\ UNCHANGED <<call, callVars, yamlVars, textVars, pathVars, log>>

NextDefines ==
    \/ ParseDefinesEnter
    \/ ParseDefinesDirective
    \/ ParseDefinesResolve
    \/ ParseDefinesReturn

SpecDefines == InitDefines /\ [][NextDefines]_vars

(***************************************************************************)
(* Inputs of resolve_path / resolve_paths                                  *)
(***************************************************************************)
MaxEntries == 3

\* the directory /a/l holds up to MaxEntries of these; `d.l` is a directory
FileNames == { <<"a", ".", "l">>, <<"b", ".", "l">>, <<"c", ".", "t">>, <<"l">>, <<"*", "l">> }

DirNames == { <<"d", ".", "l">> }

DirA == << <<"a">> >>

DirAB == << <<"a">>, <<"b">> >>

DirAL == << <<"a">>, <<"l">> >>

DirRS == << <<"r">>, <<"s">> >>

BaseDirs == { DirA, DirAL, << <<"r">> >>, DirRS, << <<"r">>, <<"l">> >>, Cwd.parts }

\* /a/b is a directory, or a symbolic link to /r/s
Filesystems ==
    { [dirs |-> BaseDirs \cup (IF linked THEN {} ELSE {DirAB})
                  \cup {Append(DirAL, n) : n \in E \cap DirNames},
       files |-> {Append(DirAL, n) : n \in E \cap FileNames},
       links |-> IF linked THEN { <<DirAB, DirRS>> } ELSE {}] :
        linked \in BOOLEAN,
        E \in {X \in SUBSET (FileNames \cup DirNames) : Cardinality(X) <= MaxEntries} }

CurrentFiles ==
    { None,
      <<"/", "a", "/", "b", "/", "d", ".", "x">>,
      <<"/", "a", "/", "l", "/", "d", ".", "x">>,
      <<"d", ".", "x">> }

PathArguments ==
    { <<".", ".", "/", "l", "/", "c", ".", "l">>,
      <<".", "/", "c", ".", "l">>,
      <<"/", "a", "/", "b", "/", ".", ".", "/", "l", "/", "c", ".", "l">>,
      <<"/", "a", "/", ".", "/", "l", "/", "c", ".", "l">>,
      <<"*", ".", "l">>,
      <<".", ".", "/", "l", "/", "*", ".", "l">>,
      <<".", ".", "/", "l", "/", "l", "*", "l">>,
      <<".", ".", "/", "l", "/", "*", "*", "l">>,
      <<".", ".", "/", "l", "/", "a", "*">>,
      <<".", ".", "/", "m", "/", "*", ".", "l">>,
      <<".", ".", "/", "l", "/", "a", ".", "l", "/", "*">>,
      <<"/", "a", "/", "b", "/", ".", ".", "/", "l", "/", "*">> }

InitPaths ==
    /\ call \in {"resolve_path", "resolve_paths"}
    /\ pc = call
    /\ current_file_path \in CurrentFiles
    /\ path_pattern \in PathArguments
    /\ fs \in Filesystems
    /\ content = <<>>
    /\ lines = <<>>
    /\ line_number = 0
    /\ defines = <<>>
    /\ processed_lines = <<>>
    /\ root = NoDocument
    /\ data = NoData
    /\ result = NoResult
    /\ log = <<>>
    /\ filename_arg = current_file_path
    /\ calls = 0
    /\ running = 1
    /\ other = NoThread

\* resolve_path(path)
ResolvePath ==
    /\ pc = "resolve_path"
    /\ result' = Return(resolve_path(fs, current_file_path, path_pattern))
    /\ pc' = "done"
    /\ UNCHANGED <<call, callVars, yamlVars, textVars, pathVars, log>>

\* resolve_paths(path_pattern); log_error logs the message and raises it
ResolvePaths ==
    /\ pc = "resolve_paths"
    /\ \E r \in resolve_paths(fs, current_file_path, path_pattern) :
          /\ result' = r
          /\ log' = IF r.kind = "raise" THEN Append(log, r.msg) ELSE log
    /\ pc' = "done"
    /\ UNCHANGED <<call, callVars, yamlVars, textVars, pathVars>>

NextPaths == ResolvePath \/ ResolvePaths

SpecPaths == InitPaths /\ [][NextPaths]_vars

(***************************************************************************)
(* Decoded YAML nodes and the Python conversions applied to them           *)
(***************************************************************************)
YNull == [t |-> "null"]

\* yaml.safe_load raising yaml.YAMLError e, whose str(e) is the message msg
YError(msg) == [t |-> "error", msg |-> msg]

\* the text before {e} in the except clause of _parse_yaml_content
YamlErrorPrefix(kind) ==
    IF kind = "dbv" THEN Lit("3DBV YAML parsing error: ") ELSE Lit("DBX YAML parsing error: ")

\* a _parse_yaml_content without its except clause: the decoder's error escapes
yaml_parsing_error_Raw(kind, e) == Raise("YAMLError", e.msg)

\* except yaml.YAMLError as e: self.log_error(f"... YAML parsing error: {e}")
yaml_parsing_error(kind, e) == log_error(<<YamlErrorPrefix(kind)>> \o e.msg)

YStr(s) == [t |-> "str", str |-> s]

YInt(n) == [t |-> "int", int |-> n]

\* a float is the decimal m * 10^(-e), m not a multiple of 10 unless e = 0
YFloat(m, e) == [t |-> "float", float |-> [m |-> m, e |-> e]]

YBool(b) == [t |-> "bool", bool |-> b]

YList(xs) == [t |-> "list", list |-> xs]

\* a mapping: its <<key, node>> pairs in document order
YMap(pairs) == [t |-> "map", map |-> pairs]

\* the Python value a node holds
Value(node) ==
    CASE node.t = "str" -> node.str
      [] node.t = "int" -> node.int
      [] node.t = "float" -> node.float
      [] node.t = "bool" -> node.bool
      [] node.t = "list" -> node.list
      [] node.t = "map" -> node.map

\* type(node).__name__
TypeName(node) ==
    CASE node.t = "null" -> "NoneType"
      [] node.t = "map" -> "dict"
      [] OTHER -> node.t

\* node[key] of a mapping
Get(node, key) == DictGet(Value(node), key)

\* `key in node`: the membership test of a mapping; None and numbers are
\* not iterable
KeyIn(node, key) ==
    IF node.t = "map" THEN Return(key \in DictKeys(Value(node)))
    ELSE Raise("TypeError",
               <<Lit("argument of type '"), Lit(TypeName(node)), Lit("' is not iterable")>>)

\* node.items()
Items(node) ==
    IF node.t = "map" THEN Return(Value(node))
    ELSE Raise("AttributeError",
               <<Lit("'"), Lit(TypeName(node)), Lit("' object has no attribute 'items'")>>)

Digits == <<"0", "1", "2", "3", "4", "5", "6", "7", "8", "9">>

IsDigit(c) == \E d \in 1..10 : Digits[d] = c

DigitVal(c) == (CHOOSE d \in 1..10 : Digits[d] = c) - 1

RECURSIVE DigitsValue(_)
DigitsValue(ds) ==
    IF ds = <<>> THEN 0
    ELSE 10 * DigitsValue(SubSeq(ds, 1, Len(ds) - 1)) + DigitVal(ds[Len(ds)])

RECURSIVE IntText(_)
IntText(n) ==
    IF n < 0 THEN <<"-">> \o IntText(0 - n)
    ELSE IF n < 10 THEN <<Digits[n + 1]>>
    ELSE IntText(n \div 10) \o <<Digits[(n % 10) + 1]>>

RECURSIVE FloatNormal(_, _)
FloatNormal(m, e) ==
    IF e > 0 /\ m % 10 = 0 THEN FloatNormal(m \div 10, e - 1) ELSE [m |-> m, e |-> e]

\* float(text) once the sign is read: digits with at most one point, at
\* least one digit
float_of_digits(s, negative, int_part, frac_part) ==
    IF int_part \o frac_part # <<>>
       /\ \A i \in 1..Len(int_part \o frac_part) : IsDigit((int_part \o frac_part)[i])
    THEN Return(FloatNormal(IF negative THEN 0 - DigitsValue(int_part \o frac_part)
                            ELSE DigitsValue(int_part \o frac_part),
                            Len(frac_part)))
    ELSE Raise("ValueError",
               <<Lit("could not convert string to float: '"), Text(s), Lit("'")>>)

\* float(text) of the stripped text t, `signed` its first character being a
\* sign (exponents, "inf", "nan" and "_" use characters no input holds)
float_of_stripped(s, t, signed) ==
    float_of_digits(s, signed /\ t[1] = "-",
                    SubSeq(t, IF signed THEN 2 ELSE 1,
                           IF find(t, ".") = 0 THEN Len(t) ELSE find(t, ".") - 1),
                    IF find(t, ".") = 0 THEN <<>> ELSE SubSeq(t, find(t, ".") + 1, Len(t)))

\* float(text): surrounding whitespace is ignored
float_of_text(s) ==
    float_of_stripped(s, strip(s), strip(s) # <<>> /\ strip(s)[1] \in {"+", "-"})

\* float(node)
float(node) ==
    CASE node.t = "int" -> Return([m |-> Value(node), e |-> 0])
      [] node.t = "float" -> Return(Value(node))
      [] node.t = "bool" -> Return([m |-> IF Value(node) THEN 1 ELSE 0, e |-> 0])
      [] node.t = "str" -> float_of_text(Value(node))
      [] OTHER -> Raise("TypeError",
                        <<Lit("float() argument must be a string or a real number, not '"),
                          Lit(TypeName(node)), Lit("'")>>)

RECURSIVE Pow10(_)
Pow10(e) == IF e = 0 THEN 1 ELSE 10 * Pow10(e - 1)

\* int(text): optional sign and digits
int_of_text(s) ==
    LET t == strip(s)
        signed == t # <<>> /\ t[1] \in {"+", "-"}
        negative == t # <<>> /\ t[1] = "-"
        ds == IF signed THEN Tail(t) ELSE t
    IN  IF ds # <<>> /\ \A i \in 1..Len(ds) : IsDigit(ds[i])
        THEN Return(IF negative THEN 0 - DigitsValue(ds) ELSE DigitsValue(ds))
        ELSE Raise("ValueError",
                   <<Lit("invalid literal for int() with base 10: '"), Text(s), Lit("'")>>)

\* int(node): a float is truncated towards zero
int(node) ==
    CASE node.t = "int" -> Return(Value(node))
      [] node.t = "float" ->
            Return(IF Value(node).m < 0 THEN 0 - ((0 - Value(node).m) \div Pow10(Value(node).e))
                   ELSE Value(node).m \div Pow10(Value(node).e))
      [] node.t = "bool" -> Return(IF Value(node) THEN 1 ELSE 0)
      [] node.t = "str" -> int_of_text(Value(node))
      [] OTHER -> Raise("TypeError",
                        <<Lit("int() argument must be a string, a bytes-like object or a real number, not '"),
                          Lit(TypeName(node)), Lit("'")>>)

\* the digits of n, zero-padded on the left to `width` characters
RECURSIVE Padded(_, _)
Padded(n, width) ==
    IF width = 0 THEN <<>> ELSE Padded(n \div 10, width - 1) \o <<Digits[(n % 10) + 1]>>

\* repr(float) of a decimal in positional notation
FloatText(x) ==
    LET mag == IF x.m < 0 THEN 0 - x.m ELSE x.m
    IN  (IF x.m < 0 THEN <<"-">> ELSE <<>>)
        \o IntText(mag \div Pow10(x.e)) \o <<".">>
        \o (IF x.e = 0 THEN <<"0">> ELSE Padded(mag % Pow10(x.e), x.e))

\* str(node) of a scalar
str(node) ==
    CASE node.t = "str" -> Value(node)
      [] node.t = "int" -> IntText(Value(node))
      [] node.t = "float" -> FloatText(Value(node))
      [] node.t = "null" -> <<"N", "o", "n", "e">>
      [] node.t = "bool" -> IF Value(node) THEN <<"T", "r", "u", "e">>
                            ELSE <<"F", "a", "l", "s", "e">>

\* bool(node)
bool(node) ==
    CASE node.t = "bool" -> Value(node)
      [] node.t = "null" -> FALSE
      [] node.t = "int" -> Value(node) # 0
      [] node.t = "float" -> Value(node).m # 0
      [] OTHER -> Value(node) # <<>>

\* an extract_value that converts a null value like any other
extract_value_NoneAsText(node, key) ==
    IF key \notin DictKeys(Value(node)) THEN None ELSE str(Get(node, key))

\* extract_value(node, key, str) on a mapping: None for an absent key or a
\* null value
extract_value(node, key) ==
    IF key \notin DictKeys(Value(node)) THEN None
    ELSE IF Get(node, key) = YNull THEN None
    ELSE str(Get(node, key))

\* parse_coordinate(coord_node)
parse_coordinate(coord_node) ==
    IF coord_node.t # "list" \/ Len(Value(coord_node)) # 2
    THEN log_error(<<Lit("Coordinate must be an array [x, y]")>>)
    ELSE LET x == float(Value(coord_node)[1])
             y == float(Value(coord_node)[2])
         IN  IF x.kind = "raise"
             THEN log_error(<<Lit("Error parsing coordinate: ")>> \o x.msg)
             ELSE IF y.kind = "raise"
             THEN log_error(<<Lit("Error parsing coordinate: ")>> \o y.msg)
             ELSE Return([x |-> x.value, y |-> y.value])

(***************************************************************************)
(* BaseParser.parse_header                                                 *)
(***************************************************************************)
\* Header()
Header0 == [version |-> <<>>, unit |-> <<>>, precision |-> 1, includes |-> <<>>]

\* the `for include in includes` loop; resolve_paths has one outcome per
\* iterdir() order, so the loop has a set of outcomes
\* an include loop that resolves every entry, the empty ones too
RECURSIVE IncludePaths_EveryEntry(_, _, _, _)
IncludePaths_EveryEntry(f, cfp, includes, acc) ==
    IF includes = <<>> THEN { Return(acc) }
    ELSE UNION { IF r.kind = "raise" THEN { r }
                 ELSE IncludePaths_EveryEntry(f, cfp, Tail(includes), acc \o r.value) :
                   r \in resolve_paths(f, cfp, str(includes[1])) }

RECURSIVE IncludePaths(_, _, _, _)
IncludePaths(f, cfp, includes, acc) ==
    IF includes = <<>> THEN { Return(acc) }
    ELSE LET include_str == IF includes[1] = YNull THEN <<>> ELSE str(includes[1])
         IN  IF include_str = <<>> THEN IncludePaths(f, cfp, Tail(includes), acc)
             ELSE UNION { IF r.kind = "raise" THEN { r }
                          ELSE IncludePaths(f, cfp, Tail(includes), acc \o r.value) :
                            r \in resolve_paths(f, cfp, include_str) }

\* version, unit and precision of the header
HeaderScalars(header_node) ==
    LET version == extract_value(header_node, "version")
        unit == extract_value(header_node, "unit")
        precision == IF "precision" \in DictKeys(Value(header_node))
                     THEN int(Get(header_node, "precision"))
                     ELSE Return(Header0.precision)
    IN  IF precision.kind = "raise" THEN precision
        ELSE Return([Header0 EXCEPT !.version = IF version = None THEN <<>> ELSE version,
                                    !.unit = IF unit = None THEN <<>> ELSE unit,
                                    !.precision = precision.value])

\* a parse_header that takes a scalar include for the list that holds it
parse_header_ScalarInclude(f, cfp, header_node) ==
    IF KeyIn(header_node, "version").kind = "raise"
    THEN { KeyIn(header_node, "version") }
    ELSE IF HeaderScalars(header_node).kind = "raise" THEN { HeaderScalars(header_node) }
    ELSE IF "include" \in DictKeys(Value(header_node))
    THEN { IF r.kind = "raise" THEN r
           ELSE Return([HeaderScalars(header_node).value EXCEPT !.includes = r.value]) :
             r \in IncludePaths(f, cfp,
                                IF Get(header_node, "include").t = "list"
                                THEN Value(Get(header_node, "include"))
                                ELSE <<Get(header_node, "include")>>, <<>>) }
    ELSE { HeaderScalars(header_node) }

\* parse_header(header_node): the set of its outcomes
parse_header(f, cfp, header_node) ==
    LET scalars == HeaderScalars(header_node)
    IN  IF KeyIn(header_node, "version").kind = "raise"
        THEN { KeyIn(header_node, "version") }
        ELSE IF scalars.kind = "raise" THEN { scalars }
        ELSE IF "include" \in DictKeys(Value(header_node)) /\ Get(header_node, "include").t = "list"
        THEN { IF r.kind = "raise" THEN r
               ELSE Return([scalars.value EXCEPT !.includes = r.value]) :
                 r \in IncludePaths(f, cfp, Value(Get(header_node, "include")), <<>>) }
        ELSE { scalars }

(***************************************************************************)
(* DbxParser                                                               *)
(***************************************************************************)
DesignExternal0 == [verilog_file |-> <<>>]

DesignDef0 == [name |-> <<>>, external |-> DesignExternal0]

ChipletInstExternal0 == [verilog_file |-> <<>>, sdc_file |-> <<>>, def_file |-> <<>>]

Float0 == [m |-> 0, e |-> 0]

\* ChipletInst(name=name)
ChipletInst0(name) ==
    [name |-> name, reference |-> <<>>, external |-> ChipletInstExternal0,
     loc |-> [x |-> Float0, y |-> Float0], z |-> Float0, orient |-> <<>>]

\* Connection(name=name)
Connection0(name) == [name |-> name, top |-> <<>>, bot |-> <<>>, thickness |-> Float0]

\* DbxData()
DbxData0 ==
    [header |-> Header0, design |-> DesignDef0, chiplet_instances |-> <<>>,
     connections |-> <<>>]

\* the `if key in external_node: ... str(self.resolve_path(value))` step
ExternalFile(f, cfp, external_node, key, default) ==
    IF key \in DictKeys(Value(external_node)) /\ extract_value(external_node, key) # None
    THEN PathStr(resolve_path(f, cfp, extract_value(external_node, key)))
    ELSE default

\* _parse_design_external(external_node)
parse_design_external(f, cfp, external_node) ==
    IF KeyIn(external_node, "verilog_file").kind = "raise"
    THEN KeyIn(external_node, "verilog_file")
    ELSE Return([verilog_file |->
                    ExternalFile(f, cfp, external_node, "verilog_file", <<>>)])

\* a _parse_design whose check of `name` also rejects a null value
parse_design_NullNameRejected(f, cfp, design_node) ==
    IF KeyIn(design_node, "name").kind = "raise" THEN KeyIn(design_node, "name")
    ELSE IF "name" \notin DictKeys(Value(design_node))
            \/ extract_value(design_node, "name") = None
    THEN log_error(<<Lit("DBX Design name is required")>>)
    ELSE LET design == [DesignDef0 EXCEPT !.name = extract_value(design_node, "name")]
             external == parse_design_external(f, cfp, Get(design_node, "external"))
         IN  IF "external" \notin DictKeys(Value(design_node)) THEN Return(design)
             ELSE IF external.kind = "raise" THEN external
             ELSE Return([design EXCEPT !.external = external.value])

\* _parse_design(design_node)
parse_design(f, cfp, design_node) ==
    IF KeyIn(design_node, "name").kind = "raise" THEN KeyIn(design_node, "name")
    ELSE IF "name" \notin DictKeys(Value(design_node))
    THEN log_error(<<Lit("DBX Design name is required")>>)
    ELSE LET name == extract_value(design_node, "name")
             design == [DesignDef0 EXCEPT !.name = IF name # None THEN name ELSE <<>>]
             external == parse_design_external(f, cfp, Get(design_node, "external"))
         IN  IF "external" \notin DictKeys(Value(design_node)) THEN Return(design)
             ELSE IF external.kind = "raise" THEN external
             ELSE Return([design EXCEPT !.external = external.value])

\* _parse_chiplet_inst_external(external_node)
parse_chiplet_inst_external(f, cfp, external_node) ==
    IF KeyIn(external_node, "verilog_file").kind = "raise"
    THEN KeyIn(external_node, "verilog_file")
    ELSE Return([verilog_file |-> ExternalFile(f, cfp, external_node, "verilog_file", <<>>),
                 sdc_file |-> ExternalFile(f, cfp, external_node, "sdc_file", <<>>),
                 def_file |-> ExternalFile(f, cfp, external_node, "def_file", <<>>)])

\* a _parse_chiplet_inst that rejects a reference to no known chiplet
parse_chiplet_inst_KnownReference(f, cfp, instance, instance_node) ==
    IF KeyIn(instance_node, "reference").kind = "raise"
    THEN KeyIn(instance_node, "reference")
    ELSE IF "reference" \notin DictKeys(Value(instance_node))
    THEN log_error(<<Lit("DBX ChipletInst reference is required for instance "),
                     Named(instance.name)>>)
    ELSE IF extract_value(instance_node, "reference") \notin {None, <<"c", "A">>}
    THEN log_error(<<Lit("DBX ChipletInst reference not found for instance "),
                     Named(instance.name)>>)
    ELSE LET reference == extract_value(instance_node, "reference")
             referenced == [instance EXCEPT
                              !.reference = IF reference # None THEN reference ELSE <<>>]
             external == parse_chiplet_inst_external(f, cfp, Get(instance_node, "external"))
         IN  IF "external" \notin DictKeys(Value(instance_node)) THEN Return(referenced)
             ELSE IF external.kind = "raise" THEN external
             ELSE Return([referenced EXCEPT !.external = external.value])

\* _parse_chiplet_inst(instance, instance_node): the instance it leaves
parse_chiplet_inst(f, cfp, instance, instance_node) ==
    IF KeyIn(instance_node, "reference").kind = "raise"
    THEN KeyIn(instance_node, "reference")
    ELSE IF "reference" \notin DictKeys(Value(instance_node))
    THEN log_error(<<Lit("DBX ChipletInst reference is required for instance "),
                     Named(instance.name)>>)
    ELSE LET reference == extract_value(instance_node, "reference")
             referenced == [instance EXCEPT
                              !.reference = IF reference # None THEN reference ELSE <<>>]
             external == parse_chiplet_inst_external(f, cfp, Get(instance_node, "external"))
         IN  IF "external" \notin DictKeys(Value(instance_node)) THEN Return(referenced)
             ELSE IF external.kind = "raise" THEN external
             ELSE Return([referenced EXCEPT !.external = external.value])

\* the loop of _parse_chiplet_insts over instances_node.items()
RECURSIVE ChipletInstsLoop(_, _, _, _)
ChipletInstsLoop(f, cfp, items, instances) ==
    IF items = <<>> THEN Return(instances)
    ELSE LET name == items[1][1]
             instance == parse_chiplet_inst(f, cfp, ChipletInst0(name), items[1][2])
         IN  IF instance.kind = "raise" THEN instance
             ELSE ChipletInstsLoop(f, cfp, Tail(items),
                                   DictSet(instances, name, instance.value))

\* _parse_chiplet_insts(instances_node)
parse_chiplet_insts(f, cfp, instances_node) ==
    IF Items(instances_node).kind = "raise" THEN Items(instances_node)
    ELSE ChipletInstsLoop(f, cfp, Value(instances_node), <<>>)

\* a _parse_stack_instance that leaves the orientation of an entry without
\* `orient` as it is
parse_stack_instance_OptionalOrient(instance, stack_instance_node) ==
    LET node == stack_instance_node
        loc == parse_coordinate(Get(node, "loc"))
        z == float(Get(node, "z"))
        orient == extract_value(node, "orient")
    IN  IF KeyIn(node, "loc").kind = "raise" THEN KeyIn(node, "loc")
        ELSE IF "loc" \notin DictKeys(Value(node))
        THEN log_error(<<Lit("DBX Stack location is required for instance "),
                         Named(instance.name)>>)
        ELSE IF loc.kind = "raise" THEN loc
        ELSE IF "z" \notin DictKeys(Value(node))
        THEN log_error(<<Lit("DBX Stack z is required for instance "), Named(instance.name)>>)
        ELSE IF z.kind = "raise" THEN z
        ELSE IF "orient" \notin DictKeys(Value(node))
        THEN Return([instance EXCEPT !.loc = loc.value, !.z = z.value])
        ELSE Return([instance EXCEPT !.loc = loc.value, !.z = z.value,
                                     !.orient = IF orient # None THEN orient ELSE <<>>])

\* _parse_stack_instance(instance, stack_instance_node): the instance it leaves
parse_stack_instance(instance, stack_instance_node) ==
    LET node == stack_instance_node
        loc == parse_coordinate(Get(node, "loc"))
        z == float(Get(node, "z"))
        orient == extract_value(node, "orient")
    IN  IF KeyIn(node, "loc").kind = "raise" THEN KeyIn(node, "loc")
        ELSE IF "loc" \notin DictKeys(Value(node))
        THEN log_error(<<Lit("DBX Stack location is required for instance "),
                         Named(instance.name)>>)
        ELSE IF loc.kind = "raise" THEN loc
        ELSE IF "z" \notin DictKeys(Value(node))
        THEN log_error(<<Lit("DBX Stack z is required for instance "), Named(instance.name)>>)
        ELSE IF z.kind = "raise" THEN z
        ELSE IF "orient" \notin DictKeys(Value(node))
        THEN log_error(<<Lit("DBX Stack orientation is required for instance "),
                         Named(instance.name)>>)
        ELSE Return([instance EXCEPT !.loc = loc.value, !.z = z.value,
                                     !.orient = IF orient # None THEN orient ELSE <<>>])

\* a Stack loop that creates the instance of an entry ChipletInst did not declare
RECURSIVE StackLoop_CreatesInstance(_, _)
StackLoop_CreatesInstance(items, instances) ==
    IF items = <<>> THEN Return(instances)
    ELSE LET instance_name == items[1][1]
             found == IF instance_name \in DictKeys(instances)
                      THEN DictGet(instances, instance_name)
                      ELSE ChipletInst0(instance_name)
             instance == parse_stack_instance(found, items[1][2])
         IN  IF instance.kind = "raise" THEN instance
             ELSE StackLoop_CreatesInstance(Tail(items),
                                            DictSet(instances, instance_name, instance.value))

\* a Stack loop that passes over the entries of undeclared instances
RECURSIVE StackLoopSkipUnknown(_, _)
StackLoopSkipUnknown(items, instances) ==
    IF items = <<>> THEN Return(instances)
    ELSE LET instance_name == items[1][1]
             instance == parse_stack_instance(DictGet(instances, instance_name), items[1][2])
         IN  IF instance_name \notin DictKeys(instances)
             THEN StackLoopSkipUnknown(Tail(items), instances)
             ELSE IF instance.kind = "raise" THEN instance
             ELSE StackLoopSkipUnknown(Tail(items),
                                       DictSet(instances, instance_name, instance.value))

\* the loop of _parse_stack over stack_node.items(): the instances it leaves
RECURSIVE StackLoop(_, _)
StackLoop(items, instances) ==
    IF items = <<>> THEN Return(instances)
    ELSE LET instance_name == items[1][1]
             instance == parse_stack_instance(DictGet(instances, instance_name), items[1][2])
         IN  IF instance_name \notin DictKeys(instances)
             THEN log_error(<<Lit("DBX Stack instance '"), Named(instance_name),
                              Lit("' not found in ChipletInst")>>)
             ELSE IF instance.kind = "raise" THEN instance
             ELSE StackLoop(Tail(items), DictSet(instances, instance_name, instance.value))

\* _parse_stack(instances, stack_node)
parse_stack(instances, stack_node) ==
    IF Items(stack_node).kind = "raise" THEN Items(stack_node)
    ELSE StackLoop(Value(stack_node), instances)

\* _parse_connection(connection, connection_node): the connection it leaves
parse_connection(connection, connection_node) ==
    LET node == connection_node
        thickness == IF "thickness" \in DictKeys(Value(node)) THEN float(Get(node, "thickness"))
                     ELSE Return(connection.thickness)
    IN  IF KeyIn(node, "top").kind = "raise" THEN KeyIn(node, "top")
        ELSE IF "top" \notin DictKeys(Value(node))
        THEN log_error(<<Lit("DBX Connection top is required for connection "),
                         Named(connection.name)>>)
        ELSE IF "bot" \notin DictKeys(Value(node))
        THEN log_error(<<Lit("DBX Connection bot is required for connection "),
                         Named(connection.name)>>)
        ELSE IF thickness.kind = "raise" THEN thickness
        ELSE Return([connection EXCEPT !.top = extract_value(node, "top"),
                                       !.bot = extract_value(node, "bot"),
                                       !.thickness = thickness.value])

\* the loop of _parse_connections over connections_node.items()
RECURSIVE ConnectionsLoop(_, _)
ConnectionsLoop(items, connections) ==
    IF items = <<>> THEN Return(connections)
    ELSE LET name == items[1][1]
             connection == parse_connection(Connection0(name), items[1][2])
         IN  IF connection.kind = "raise" THEN connection
             ELSE ConnectionsLoop(Tail(items), DictSet(connections, name, connection.value))

\* _parse_connections(connections_node)
parse_connections(connections_node) ==
    IF Items(connections_node).kind = "raise" THEN Items(connections_node)
    ELSE ConnectionsLoop(Value(connections_node), <<>>)

\* the order in which the document's keys were written
WrittenOrder(loaded) == [i \in 1..Len(Value(loaded)) |-> Value(loaded)[i][1]]

\* the order of the `if 'X' in root` statements of _parse_yaml_content
ProcessingOrder(loaded) == <<"Header", "Design", "ChipletInst", "Stack", "Connection">>

\* one `if section in root: data.x = handler(root[section])` statement: the
\* data object it leaves, or what it raises
DbxSection(f, cfp, loaded, d, section) ==
    IF section \notin DictKeys(Value(loaded)) THEN { Return(d) }
    ELSE LET node == Get(loaded, section)
             Into(r, field) ==
                 IF r.kind = "raise" THEN r
                 ELSE Return([d EXCEPT ![field] = r.value])
         IN  CASE section = "Header" ->
                    { Into(r, "header") : r \in parse_header(f, cfp, node) }
               [] section = "Design" -> { Into(parse_design(f, cfp, node), "design") }
               [] section = "ChipletInst" ->
                    { Into(parse_chiplet_insts(f, cfp, node), "chiplet_instances") }
               [] section = "Stack" ->
                    { Into(parse_stack(d.chiplet_instances, node), "chiplet_instances") }
               [] section = "Connection" ->
                    { Into(parse_connections(node), "connections") }

\* the statements of _parse_yaml_content from `order` on
RECURSIVE DbxSections(_, _, _, _, _)
DbxSections(f, cfp, loaded, d, order) ==
    IF order = <<>> THEN { Return(d) }
    ELSE UNION { IF r.kind = "raise" THEN { r }
                 ELSE DbxSections(f, cfp, loaded, r.value, Tail(order)) :
                   r \in DbxSection(f, cfp, loaded, d, order[1]) }

\* root = yaml.safe_load(content); if root is None: root = {}
LoadedRoot(loaded) == IF loaded = YNull THEN YMap(<<>>) ELSE loaded

\* DbxParser._parse_yaml_content on the decoded document: its outcomes
dbx_parse_yaml_content(f, cfp, loaded) ==
    IF loaded.t = "error" THEN { yaml_parsing_error("dbx", loaded) }
    ELSE
    DbxSections(f, cfp, LoadedRoot(loaded), DbxData0, ProcessingOrder(LoadedRoot(loaded)))

(***************************************************************************)
(* Inputs of DbxParser._parse_yaml_content                                 *)
(***************************************************************************)
\* the .3dbx file is /a/d.x; /a/l holds a.l and b.l; there is no /a/m
DbxFile == <<"/", "a", "/", "d", ".", "x">>

DbxFilesystem ==
    [dirs |-> BaseDirs,
     files |-> { Append(DirAL, <<"a", ".", "l">>), Append(DirAL, <<"b", ".", "l">>) },
     links |-> {}]

\* a section that the document does not have
Absent == [t |-> "absent"]

HeaderNodes ==
    { YMap(<< <<"version", YStr(<<"1">>)>>,
              <<"include", YList(<<YStr(<<"l", "/", "*", ".", "l">>)>>)>> >>),
      YMap(<< <<"include", YList(<<YStr(<<"m", "/", "*", ".", "l">>)>>)>> >>) }

\* the second has no `name`
DesignNodes ==
    { YMap(<< <<"name", YStr(<<"t">>)>> >>),
      YMap(<< <<"external", YMap(<< <<"verilog_file", YStr(<<"t", ".", "v">>)>> >>)>> >>) }

InstanceNode == YMap(<< <<"reference", YStr(<<"c", "A">>)>> >>)

ExternalInstanceNode ==
    YMap(<< <<"reference", YStr(<<"c", "B">>)>>,
            <<"external", YMap(<< <<"sdc_file", YStr(<<".", ".", "/", "i", ".", "s">>)>> >>)>> >>)

\* the last has an entry without `reference`
ChipletInstNodes ==
    { YMap(<< <<"i1", InstanceNode>> >>),
      YMap(<< <<"i1", InstanceNode>>, <<"i2", ExternalInstanceNode>> >>),
      YMap(<< <<"i1", InstanceNode>>, <<"i2", YMap(<<>>)>> >>) }

StackNodeA ==
    YMap(<< <<"loc", YList(<<YInt(0), YInt(0)>>)>>, <<"z", YInt(0)>>,
            <<"orient", YStr(<<"R", "0">>)>> >>)

StackNodeB ==
    YMap(<< <<"loc", YList(<<YInt(5), YFloat(25, 1)>>)>>, <<"z", YFloat(15, 1)>>,
            <<"orient", YStr(<<"M", "X">>)>> >>)

\* an entry without `z`
StackNodeNoZ ==
    YMap(<< <<"loc", YList(<<YInt(5), YInt(5)>>)>>, <<"orient", YStr(<<"R", "0">>)>> >>)

\* `g` is declared by no ChipletInst section
StackNodes ==
    { YMap(<< <<"i1", StackNodeB>> >>),
      YMap(<< <<"i2", StackNodeB>>, <<"i1", StackNodeA>> >>),
      YMap(<< <<"g", StackNodeB>> >>),
      YMap(<< <<"i1", StackNodeB>>, <<"g", StackNodeA>> >>),
      YMap(<< <<"g", YNull>>, <<"i1", StackNodeB>> >>),
      YMap(<< <<"i1", StackNodeNoZ>>, <<"g", StackNodeA>> >>) }

\* the second has an entry without `bot`
ConnectionNodes ==
    { YMap(<< <<"c1", YMap(<< <<"top", YStr(<<"i", "1", ".", "r">>)>>, <<"bot", YNull>>,
                              <<"thickness", YInt(2)>> >>)>> >>),
      YMap(<< <<"c1", YMap(<< <<"top", YStr(<<"i", "1", ".", "r">>)>> >>)>> >>) }

SectionNodes(section) ==
    CASE section = "Header" -> HeaderNodes
      [] section = "Design" -> DesignNodes
      [] section = "ChipletInst" -> ChipletInstNodes
      [] section = "Stack" -> StackNodes
      [] section = "Connection" -> ConnectionNodes

\* the sections of the documents that are written in every order: each
\* section can fail, and Stack names instances of ChipletInst
PermutedNodes(section) ==
    CASE section = "Header" ->
            { YMap(<< <<"include", YList(<<YStr(<<"m", "/", "*", ".", "l">>)>>)>> >>) }
      [] section = "Design" -> { YMap(<< <<"name", YStr(<<"t">>)>> >>) }
      [] section = "ChipletInst" ->
            { YMap(<< <<"i1", InstanceNode>> >>),
              YMap(<< <<"i1", InstanceNode>>, <<"i2", YMap(<<>>)>> >>) }
      [] section = "Stack" ->
            { YMap(<< <<"i1", StackNodeB>> >>),
              YMap(<< <<"g", StackNodeB>> >>),
              YMap(<< <<"i1", StackNodeNoZ>>, <<"g", StackNodeA>> >>) }
      [] section = "Connection" ->
            { YMap(<< <<"c1", YMap(<< <<"top", YStr(<<"i", "1", ".", "r">>)>> >>)>> >>) }

SectionNames == {"Header", "Design", "ChipletInst", "Stack", "Connection"}

\* the mapping safe_load returns for a document that holds the given
\* sections, written in the given order
Document(order, sections) ==
    YMap(SelectSeq([i \in 1..Len(order) |-> <<order[i], sections[order[i]]>>],
                   LAMBDA p : p[2] # Absent))

\* every choice of present sections, in each of the written orders
Documents(orders, nodes) ==
    { Document(order, sections) :
        order \in orders,
        sections \in { s \in [SectionNames -> UNION {nodes[n] : n \in SectionNames}
                                               \cup {Absent}] :
                         \A n \in SectionNames : s[n] \in nodes[n] \cup {Absent} } }

\* documents written in the order of the specification, or in the reverse
\* order, and the empty document
DbxDocuments ==
    Documents({ <<"Header", "Design", "ChipletInst", "Stack", "Connection">>,
                <<"Connection", "Stack", "ChipletInst", "Design", "Header">> },
              [n \in SectionNames |-> SectionNodes(n)])
    \cup { YNull }

\* documents written in every order
PermutedDocuments ==
    Documents(Orderings(SectionNames), [n \in SectionNames |-> PermutedNodes(n)])

(***************************************************************************)
(* DbxParser._parse_yaml_content, one step per statement                   *)
(***************************************************************************)
DbxCall(documents) ==
    /\ call = "dbx"
    /\ pc = "parse_yaml_content"
    /\ current_file_path = DbxFile
    /\ path_pattern = <<>>
    /\ fs = DbxFilesystem
    /\ content = <<>>
    /\ lines = <<>>
    /\ line_number = 0
    /\ defines = <<>>
    /\ processed_lines = <<>>
    /\ root \in documents
    /\ data = NoData
    /\ result = NoResult
    /\ log = <<>>
    /\ filename_arg = current_file_path
    /\ calls = 0
    /\ running = 1
    /\ other = NoThread

InitDbx == DbxCall(DbxDocuments)

InitDbxOrder == DbxCall(PermutedDocuments)

FirstSection(order) == IF order = <<>> THEN "return" ELSE order[1]

SectionAfter(order, section) ==
    LET i == CHOOSE k \in 1..Len(order) : order[k] = section
    IN  IF i = Len(order) THEN "return" ELSE order[i + 1]

\* an exception leaves the call; log_error has logged a ParserError
Raised(r) ==
    /\ result' = r
    /\ pc' = "done"
    /\ log' = IF r.exc = "ParserError" THEN Append(log, r.msg) ELSE log

\* root = yaml.safe_load(content); if root is None: root = {}; data = DbxData()
DbxLoad ==
    /\ call = "dbx"
    /\ pc = "parse_yaml_content"
    /\ IF root.t = "error"
       THEN /\ Raised(yaml_parsing_error("dbx", root))
            /\ UNCHANGED yamlVars
       ELSE /\ root' = LoadedRoot(root)
            /\ data' = DbxData0
            /\ pc' = FirstSection(ProcessingOrder(LoadedRoot(root)))
            /\ UNCHANGED <<result, log>>
    /\ UNCHANGED <<call, callVars, textVars, pathVars>>

DbxStatement(section) ==
    /\ call = "dbx"
    /\ pc = section
    /\ \E r \in DbxSection(fs, current_file_path, root, data, section) :
          IF r.kind = "raise" THEN Raised(r) /\ UNCHANGED data
          ELSE /\ data' = r.value
               /\ pc' = SectionAfter(ProcessingOrder(root), section)
               /\ UNCHANGED <<result, log>>
    /\ UNCHANGED <<call, callVars, textVars, pathVars, root>>

\* if 'Header' in root: data.header = self.parse_header(root['Header'])
DbxHeader == DbxStatement("Header")

\* if 'Design' in root: data.design = self._parse_design(root['Design'])
DbxDesign == DbxStatement("Design")

\* if 'ChipletInst' in root: data.chiplet_instances = self._parse_chiplet_insts(...)
DbxChipletInst == DbxStatement("ChipletInst")

\* if 'Stack' in root: self._parse_stack(data.chiplet_instances, root['Stack'])
DbxStack == DbxStatement("Stack")

\* if 'Connection' in root: data.connections = self._parse_connections(...)
DbxConnection == DbxStatement("Connection")

\* return data
DbxReturn ==
    /\ call = "dbx"
    /\ pc = "return"
    /\ result' = Return(data)
    /\ pc' = "done"
    /\ UNCHANGED <<call, callVars, textVars, pathVars, yamlVars, log>>

NextDbx ==
    \/ DbxLoad
    \/ DbxHeader
    \/ DbxDesign
    \/ DbxChipletInst
    \/ DbxStack
    \/ DbxConnection
    \/ DbxReturn

SpecDbx == InitDbx /\ [][NextDbx]_vars

SpecDbxOrder == InitDbxOrder /\ [][NextDbx]_vars

(***************************************************************************)
(* DbvParser                                                               *)
(***************************************************************************)
MinusOne == [m |-> 0 - 1, e |-> 0]

\* ChipletRegion(name=name)
ChipletRegion0(name) ==
    [name |-> name, bmap |-> <<>>, pmap |-> <<>>, side |-> <<>>, layer |-> <<>>,
     gds_layer |-> <<>>, coords |-> <<>>]

\* ChipletExternal()
ChipletExternal0 ==
    [lef_files |-> <<>>, tech_lef_files |-> <<>>, lib_files |-> <<>>, def_file |-> <<>>]

\* ChipletDef(name=name)
ChipletDef0(name) ==
    [name |-> name, type |-> <<>>,
     design_width |-> MinusOne, design_height |-> MinusOne,
     offset |-> [x |-> Float0, y |-> Float0],
     seal_ring_left |-> MinusOne, seal_ring_bottom |-> MinusOne,
     seal_ring_right |-> MinusOne, seal_ring_top |-> MinusOne,
     scribe_line_left |-> MinusOne, scribe_line_bottom |-> MinusOne,
     scribe_line_right |-> MinusOne, scribe_line_top |-> MinusOne,
     thickness |-> MinusOne, shrink |-> MinusOne, tsv |-> FALSE,
     regions |-> <<>>, external |-> ChipletExternal0]

\* DbvData()
DbvData0 == [header |-> Header0, chiplet_defs |-> <<>>]

\* the first exception among the outcomes, if any
FirstRaise(outcomes) ==
    IF \E i \in 1..Len(outcomes) : outcomes[i].kind = "raise"
    THEN outcomes[CHOOSE i \in 1..Len(outcomes) :
                    /\ outcomes[i].kind = "raise"
                    /\ \A j \in 1..(i - 1) : outcomes[j].kind # "raise"]
    ELSE NoResult

\* float() of the elements of a list, left to right
Floats(values) == [i \in 1..Len(values) |-> float(values[i])]

\* a type statement that lets a chiplet without `type` pass
chiplet_type_Optional(chiplet, chiplet_node) ==
    IF KeyIn(chiplet_node, "type").kind = "raise" THEN KeyIn(chiplet_node, "type")
    ELSE IF "type" \notin DictKeys(Value(chiplet_node)) THEN Return(chiplet)
    ELSE Return([chiplet EXCEPT !.type = str(Get(chiplet_node, "type"))])

\* _parse_chiplet: `type`
chiplet_type(chiplet, chiplet_node) ==
    IF KeyIn(chiplet_node, "type").kind = "raise" THEN KeyIn(chiplet_node, "type")
    ELSE IF "type" \notin DictKeys(Value(chiplet_node))
    THEN log_error(<<Lit("Chiplet type is required for chiplet "), Named(chiplet.name)>>)
    ELSE Return([chiplet EXCEPT !.type = str(Get(chiplet_node, "type"))])

\* a design_area statement that takes the first two of two or more values
chiplet_design_area_AtLeastTwo(chiplet, chiplet_node) ==
    LET design_area == Get(chiplet_node, "design_area")
        values == Floats(Value(design_area))
    IN  IF "design_area" \notin DictKeys(Value(chiplet_node)) THEN Return(chiplet)
        ELSE IF design_area.t = "list" /\ Len(Value(design_area)) >= 2
        THEN IF FirstRaise(SubSeq(values, 1, 2)) # NoResult
             THEN FirstRaise(SubSeq(values, 1, 2))
             ELSE Return([chiplet EXCEPT !.design_width = values[1].value,
                                         !.design_height = values[2].value])
        ELSE log_error(<<Lit("design_area must have 2 values for chiplet "),
                         Named(chiplet.name)>>)

\* _parse_chiplet: `design_area`
chiplet_design_area(chiplet, chiplet_node) ==
    LET design_area == Get(chiplet_node, "design_area")
        values == Floats(Value(design_area))
    IN  IF "design_area" \notin DictKeys(Value(chiplet_node)) THEN Return(chiplet)
        ELSE IF design_area.t = "list" /\ Len(Value(design_area)) = 2
        THEN IF FirstRaise(values) # NoResult THEN FirstRaise(values)
             ELSE Return([chiplet EXCEPT !.design_width = values[1].value,
                                         !.design_height = values[2].value])
        ELSE log_error(<<Lit("design_area must have 2 values for chiplet "),
                         Named(chiplet.name)>>)

\* _parse_chiplet: `offset`
chiplet_offset(chiplet, chiplet_node) ==
    LET offset == parse_coordinate(Get(chiplet_node, "offset"))
    IN  IF "offset" \notin DictKeys(Value(chiplet_node)) THEN Return(chiplet)
        ELSE IF offset.kind = "raise" THEN offset
        ELSE Return([chiplet EXCEPT !.offset = offset.value])

\* _parse_chiplet: `seal_ring_width`
chiplet_seal_ring_width(chiplet, chiplet_node) ==
    LET seal_ring == Get(chiplet_node, "seal_ring_width")
        values == Floats(Value(seal_ring))
    IN  IF "seal_ring_width" \notin DictKeys(Value(chiplet_node)) THEN Return(chiplet)
        ELSE IF seal_ring.t = "list" /\ Len(Value(seal_ring)) = 4
        THEN IF FirstRaise(values) # NoResult THEN FirstRaise(values)
             ELSE Return([chiplet EXCEPT !.seal_ring_left = values[1].value,
                                         !.seal_ring_bottom = values[2].value,
                                         !.seal_ring_right = values[3].value,
                                         !.seal_ring_top = values[4].value])
        ELSE log_error(<<Lit("seal_ring_width must have 4 values for chiplet "),
                         Named(chiplet.name)>>)

\* _parse_chiplet: `scribe_line_remaining_width`
chiplet_scribe_line(chiplet, chiplet_node) ==
    LET scribe_line == Get(chiplet_node, "scribe_line_remaining_width")
        values == Floats(Value(scribe_line))
    IN  IF "scribe_line_remaining_width" \notin DictKeys(Value(chiplet_node))
        THEN Return(chiplet)
        ELSE IF scribe_line.t = "list" /\ Len(Value(scribe_line)) = 4
        THEN IF FirstRaise(values) # NoResult THEN FirstRaise(values)
             ELSE Return([chiplet EXCEPT !.scribe_line_left = values[1].value,
                                         !.scribe_line_bottom = values[2].value,
                                         !.scribe_line_right = values[3].value,
                                         !.scribe_line_top = values[4].value])
        ELSE log_error(<<Lit("scribe_line_remaining_width must have 4 values for chiplet "),
                         Named(chiplet.name)>>)

\* scalar statements that leave 0.0 where the key is absent
chiplet_scalars_ZeroDefault(chiplet, chiplet_node) ==
    LET Scalar(key) ==
            IF key \in DictKeys(Value(chiplet_node)) THEN float(Get(chiplet_node, key))
            ELSE Return(Float0)
    IN  IF Scalar("thickness").kind = "raise" THEN Scalar("thickness")
        ELSE IF Scalar("shrink").kind = "raise" THEN Scalar("shrink")
        ELSE Return([chiplet EXCEPT
                        !.thickness = Scalar("thickness").value,
                        !.shrink = Scalar("shrink").value,
                        !.tsv = IF "tsv" \in DictKeys(Value(chiplet_node))
                                THEN bool(Get(chiplet_node, "tsv")) ELSE chiplet.tsv])

\* _parse_chiplet: `thickness`, `shrink` and `tsv`
chiplet_scalars(chiplet, chiplet_node) ==
    LET Scalar(key, default) ==
            IF key \in DictKeys(Value(chiplet_node)) THEN float(Get(chiplet_node, key))
            ELSE Return(default)
        thickness == Scalar("thickness", chiplet.thickness)
        shrink == Scalar("shrink", chiplet.shrink)
    IN  IF thickness.kind = "raise" THEN thickness
        ELSE IF shrink.kind = "raise" THEN shrink
        ELSE Return([chiplet EXCEPT
                        !.thickness = thickness.value,
                        !.shrink = shrink.value,
                        !.tsv = IF "tsv" \in DictKeys(Value(chiplet_node))
                                THEN bool(Get(chiplet_node, "tsv")) ELSE chiplet.tsv])

\* str(self.resolve_path(value)) of a raw node: Path() takes a str only
resolved_path_text(f, cfp, node) ==
    IF node.t = "str" THEN Return(PathStr(resolve_path(f, cfp, Value(node))))
    ELSE Raise("TypeError",
               <<Lit("expected str, bytes or os.PathLike object, not "), Lit(TypeName(node))>>)

\* parse_coordinates(coords_node)
parse_coordinates(coords_node) ==
    LET coords == [i \in 1..Len(Value(coords_node)) |-> parse_coordinate(Value(coords_node)[i])]
    IN  IF coords_node.t # "list" THEN Return(<<>>)
        ELSE IF FirstRaise(coords) # NoResult THEN FirstRaise(coords)
        ELSE Return([i \in 1..Len(coords) |-> coords[i].value])

\* _parse_region(region, region_node): the region it leaves
parse_region(f, cfp, region, region_node) ==
    LET node == region_node
        Has(key) == key \in DictKeys(Value(node))
        bmap == IF Has("bmap") THEN resolved_path_text(f, cfp, Get(node, "bmap"))
                ELSE Return(region.bmap)
        pmap == IF Has("pmap") THEN resolved_path_text(f, cfp, Get(node, "pmap"))
                ELSE Return(region.pmap)
        coords == IF Has("coords") THEN parse_coordinates(Get(node, "coords"))
                  ELSE Return(region.coords)
    IN  IF KeyIn(node, "bmap").kind = "raise" THEN KeyIn(node, "bmap")
        ELSE IF bmap.kind = "raise" THEN bmap
        ELSE IF pmap.kind = "raise" THEN pmap
        ELSE IF coords.kind = "raise" THEN coords
        ELSE Return([region EXCEPT
                        !.bmap = bmap.value,
                        !.pmap = pmap.value,
                        !.side = IF Has("side") THEN str(Get(node, "side")) ELSE @,
                        !.layer = IF Has("layer") THEN str(Get(node, "layer")) ELSE @,
                        !.gds_layer = IF Has("gds_layer") THEN str(Get(node, "gds_layer"))
                                      ELSE @,
                        !.coords = coords.value])

\* the loop of _parse_regions over regions_node.items()
RECURSIVE RegionsLoop(_, _, _, _)
RegionsLoop(f, cfp, items, regions) ==
    IF items = <<>> THEN Return(regions)
    ELSE LET name == items[1][1]
             region == parse_region(f, cfp, ChipletRegion0(name), items[1][2])
         IN  IF region.kind = "raise" THEN region
             ELSE RegionsLoop(f, cfp, Tail(items), DictSet(regions, name, region.value))

\* _parse_regions(regions_node)
parse_regions(f, cfp, regions_node) ==
    IF Items(regions_node).kind = "raise" THEN Items(regions_node)
    ELSE RegionsLoop(f, cfp, Value(regions_node), <<>>)

\* _parse_chiplet: `regions`
chiplet_regions(f, cfp, chiplet, chiplet_node) ==
    LET regions == parse_regions(f, cfp, Get(chiplet_node, "regions"))
    IN  IF "regions" \notin DictKeys(Value(chiplet_node)) THEN Return(chiplet)
        ELSE IF regions.kind = "raise" THEN regions
        ELSE Return([chiplet EXCEPT !.regions = regions.value])

\* `for x in values: files.extend(self.resolve_paths(str(x)))`: its outcomes
RECURSIVE ExtendAll(_, _, _, _)
ExtendAll(f, cfp, values, files) ==
    IF values = <<>> THEN { Return(files) }
    ELSE UNION { IF r.kind = "raise" THEN { r }
                 ELSE ExtendAll(f, cfp, Tail(values), files \o r.value) :
                   r \in resolve_paths(f, cfp, str(values[1])) }

\* a list-valued field whose scalar form is resolved but not expanded
ExternalFiles_ScalarNotExpanded(f, cfp, external_node, key) ==
    IF key \notin DictKeys(Value(external_node)) THEN { Return(<<>>) }
    ELSE IF Get(external_node, key).t = "list"
    THEN ExtendAll(f, cfp, Value(Get(external_node, key)), <<>>)
    ELSE { Return(<<PathStr(resolve_path(f, cfp, str(Get(external_node, key))))>>) }

\* one of the list-valued fields of _parse_external: a scalar is one pattern
ExternalFiles(f, cfp, external_node, key) ==
    IF key \notin DictKeys(Value(external_node)) THEN { Return(<<>>) }
    ELSE IF Get(external_node, key).t = "list"
    THEN ExtendAll(f, cfp, Value(Get(external_node, key)), <<>>)
    ELSE resolve_paths(f, cfp, str(Get(external_node, key)))

\* _parse_external(external_node, chiplet_name): its outcomes
parse_external(f, cfp, external_node) ==
    LET def_file == IF "DEF_file" \in DictKeys(Value(external_node))
                    THEN resolved_path_text(f, cfp, Get(external_node, "DEF_file"))
                    ELSE Return(ChipletExternal0.def_file)
    IN  IF KeyIn(external_node, "LEF_file").kind = "raise"
        THEN { KeyIn(external_node, "LEF_file") }
        ELSE UNION { IF lef.kind = "raise" THEN { lef } ELSE
             UNION { IF tech.kind = "raise" THEN { tech } ELSE
                   { IF lib.kind = "raise" THEN lib
                     ELSE IF def_file.kind = "raise" THEN def_file
                     ELSE Return([lef_files |-> lef.value, tech_lef_files |-> tech.value,
                                  lib_files |-> lib.value, def_file |-> def_file.value]) :
                       lib \in ExternalFiles(f, cfp, external_node, "liberty_file") } :
                     tech \in ExternalFiles(f, cfp, external_node, "APR_tech_file") } :
                   lef \in ExternalFiles(f, cfp, external_node, "LEF_file") }

\* _parse_chiplet: `external`
chiplet_external(f, cfp, chiplet, chiplet_node) ==
    IF "external" \notin DictKeys(Value(chiplet_node)) THEN { Return(chiplet) }
    ELSE { IF r.kind = "raise" THEN r ELSE Return([chiplet EXCEPT !.external = r.value]) :
             r \in parse_external(f, cfp, Get(chiplet_node, "external")) }

\* the statements of _parse_chiplet, in order
ChipletStatements ==
    <<"type", "design_area", "offset", "seal_ring_width", "scribe_line_remaining_width",
      "scalars", "regions", "external">>

\* one statement of _parse_chiplet: the chiplets it can leave
ChipletStatement(f, cfp, statement, chiplet, chiplet_node) ==
    CASE statement = "type" -> { chiplet_type(chiplet, chiplet_node) }
      [] statement = "design_area" -> { chiplet_design_area(chiplet, chiplet_node) }
      [] statement = "offset" -> { chiplet_offset(chiplet, chiplet_node) }
      [] statement = "seal_ring_width" -> { chiplet_seal_ring_width(chiplet, chiplet_node) }
      [] statement = "scribe_line_remaining_width" ->
            { chiplet_scribe_line(chiplet, chiplet_node) }
      [] statement = "scalars" -> { chiplet_scalars(chiplet, chiplet_node) }
      [] statement = "regions" -> { chiplet_regions(f, cfp, chiplet, chiplet_node) }
      [] statement = "external" -> chiplet_external(f, cfp, chiplet, chiplet_node)

\* the statements of _parse_chiplet from `statements` on
RECURSIVE ChipletFrom(_, _, _, _, _)
ChipletFrom(f, cfp, statements, chiplet, chiplet_node) ==
    IF statements = <<>> THEN { Return(chiplet) }
    ELSE UNION { IF r.kind = "raise" THEN { r }
                 ELSE ChipletFrom(f, cfp, Tail(statements), r.value, chiplet_node) :
                   r \in ChipletStatement(f, cfp, statements[1], chiplet, chiplet_node) }

\* _parse_chiplet(chiplet, chiplet_node): the chiplets it can leave
parse_chiplet(f, cfp, chiplet, chiplet_node) ==
    ChipletFrom(f, cfp, ChipletStatements, chiplet, chiplet_node)

\* a _parse_chiplet_defs loop that delivers the chiplets read before a
\* failure
RECURSIVE ChipletDefsLoopBestEffort(_, _, _, _)
ChipletDefsLoopBestEffort(f, cfp, items, chiplet_defs) ==
    IF items = <<>> THEN { Return(chiplet_defs) }
    ELSE UNION { IF r.kind = "raise" THEN { Return(chiplet_defs) }
                 ELSE ChipletDefsLoopBestEffort(f, cfp, Tail(items),
                                                DictSet(chiplet_defs, items[1][1], r.value)) :
                   r \in parse_chiplet(f, cfp, ChipletDef0(items[1][1]), items[1][2]) }

\* the loop of _parse_chiplet_defs over chiplets_node.items(): its outcomes
RECURSIVE ChipletDefsLoop(_, _, _, _)
ChipletDefsLoop(f, cfp, items, chiplet_defs) ==
    IF items = <<>> THEN { Return(chiplet_defs) }
    ELSE UNION { IF r.kind = "raise" THEN { r }
                 ELSE ChipletDefsLoop(f, cfp, Tail(items),
                                      DictSet(chiplet_defs, items[1][1], r.value)) :
                   r \in parse_chiplet(f, cfp, ChipletDef0(items[1][1]), items[1][2]) }

\* _parse_chiplet_defs(chiplets_node)
parse_chiplet_defs(f, cfp, chiplets_node) ==
    IF Items(chiplets_node).kind = "raise" THEN { Items(chiplets_node) }
    ELSE ChipletDefsLoop(f, cfp, Value(chiplets_node), <<>>)

\* `if 'Header' in root: ...` and `if 'ChipletDef' in root: ...`
DbvSection(f, cfp, loaded, d, section) ==
    IF section \notin DictKeys(Value(loaded)) THEN { Return(d) }
    ELSE IF section = "Header"
    THEN { IF r.kind = "raise" THEN r ELSE Return([d EXCEPT !.header = r.value]) :
             r \in parse_header(f, cfp, Get(loaded, "Header")) }
    ELSE { IF r.kind = "raise" THEN r ELSE Return([d EXCEPT !.chiplet_defs = r.value]) :
             r \in parse_chiplet_defs(f, cfp, Get(loaded, "ChipletDef")) }

\* DbvParser._parse_yaml_content on the decoded document: its outcomes
dbv_parse_yaml_content(f, cfp, loaded) ==
    IF loaded.t = "error" THEN { yaml_parsing_error("dbv", loaded) }
    ELSE
    UNION { IF h.kind = "raise" THEN { h }
            ELSE DbvSection(f, cfp, LoadedRoot(loaded), h.value, "ChipletDef") :
              h \in DbvSection(f, cfp, LoadedRoot(loaded), DbvData0, "Header") }

(***************************************************************************)
(* Inputs of DbvParser._parse_yaml_content                                 *)
(***************************************************************************)
MaxChiplets == 2

ChipletNames == <<"cA", "cB", "cC", "cD">>

\* the values a fixed-length array field is given; NoField: the key is absent
NoField == [t |-> "nofield"]

DesignAreas ==
    { NoField,
      YList(<<YFloat(100, 0), YFloat(2005, 1)>>),
      YList(<<YInt(100)>>),
      YList(<<YInt(1), YInt(2), YInt(3)>>),
      YList(<<YStr(<<"a", "b", "c">>), YInt(2)>>),
      YInt(5),
      YNull }

SealRings ==
    { NoField,
      YList(<<YInt(1), YInt(2), YInt(3), YInt(4)>>),
      YList(<<YInt(1), YInt(2), YInt(3)>>),
      YStr(<<"1", "2", "3", "4">>) }

ScribeLines ==
    { NoField,
      YList(<<YFloat(5, 1), YInt(6), YInt(7), YInt(8)>>),
      YList(<<YInt(5), YInt(6), YInt(7), YInt(8), YInt(9)>>) }

\* the mapping with the given fields, without those that are NoField
Fields(pairs) == YMap(SelectSeq(pairs, LAMBDA p : p[2] # NoField))

\* chiplet entries with or without `type` and with each choice of arrays
ChipletNodes ==
    { Fields(<< <<"type", type>>, <<"design_area", area>>, <<"seal_ring_width", seal>>,
                <<"scribe_line_remaining_width", scribe>> >>) :
        type \in { NoField, YStr(<<"d", "i", "e">>) },
        area \in DesignAreas, seal \in SealRings, scribe \in ScribeLines }

\* a chiplet that gives every field
FullChiplet ==
    YMap(<< <<"type", YStr(<<"d", "i", "e">>)>>,
            <<"design_area", YList(<<YInt(10), YInt(20)>>)>>,
            <<"offset", YList(<<YInt(1), YFloat(25, 1)>>)>>,
            <<"seal_ring_width", YList(<<YInt(1), YInt(2), YInt(3), YInt(4)>>)>>,
            <<"scribe_line_remaining_width", YList(<<YInt(4), YInt(3), YInt(2), YInt(1)>>)>>,
            <<"thickness", YInt(7)>>, <<"shrink", YFloat(5, 1)>>, <<"tsv", YBool(TRUE)>>,
            <<"regions",
              YMap(<< <<"r1", YMap(<< <<"bmap", YStr(<<"x", ".", "b">>)>>,
                                      <<"side", YStr(<<"f">>)>>,
                                      <<"coords", YList(<<YList(<<YInt(0), YInt(0)>>),
                                                          YList(<<YInt(1), YInt(2)>>)>>)>> >>)>> >>)>>,
            <<"external",
              YMap(<< <<"LEF_file", YStr(<<"l", "/", "*", ".", "l">>)>>,
                      <<"DEF_file", YStr(<<"x", ".", "d">>)>> >>)>> >>)

\* the entries written before the last one: complete, minimal, without
\* type, with a one-value design_area, with a bad offset, empty (null)
LeadingChiplets ==
    { FullChiplet,
      YMap(<< <<"type", YStr(<<"d", "i", "e">>)>> >>),
      YMap(<< <<"design_area", YList(<<YInt(10), YInt(20)>>)>> >>),
      YMap(<< <<"type", YStr(<<"d", "i", "e">>)>>, <<"design_area", YList(<<YInt(10)>>)>> >>),
      YMap(<< <<"type", YStr(<<"d", "i", "e">>)>>, <<"offset", YList(<<YInt(1)>>)>>,
              <<"seal_ring_width", YList(<<YInt(1)>>)>> >>),
      YNull }

\* ChipletDef sections of up to MaxChiplets entries
ChipletDefNodes ==
    { YMap([i \in 1..Len(nodes) |-> <<ChipletNames[i], nodes[i]>>]) :
        nodes \in { <<>> } \cup
                  { Append(leading, last) :
                      leading \in SeqsUpTo(LeadingChiplets, MaxChiplets - 1),
                      last \in ChipletNodes \cup LeadingChiplets } }

DbvDocuments ==
    { Fields(<< <<"Header", header>>, <<"ChipletDef", chiplets>> >>) :
        header \in { NoField, YMap(<< <<"version", YStr(<<"1">>)>>, <<"precision", YInt(2)>> >>) },
        chiplets \in ChipletDefNodes \cup { NoField } }
    \cup { YNull }

(***************************************************************************)
(* DbvParser._parse_yaml_content, one step per statement                   *)
(***************************************************************************)
InitDbv ==
    /\ call = "dbv"
    /\ pc = "parse_yaml_content"
    /\ current_file_path = DbxFile
    /\ path_pattern = <<>>
    /\ fs = DbxFilesystem
    /\ content = <<>>
    /\ lines = <<>>
    /\ line_number = 0
    /\ defines = <<>>
    /\ processed_lines = <<>>
    /\ root \in DbvDocuments
    /\ data = NoData
    /\ result = NoResult
    /\ log = <<>>
    /\ filename_arg = current_file_path
    /\ calls = 0
    /\ running = 1
    /\ other = NoThread

\* root = yaml.safe_load(content); if root is None: root = {}; data = DbvData()
DbvLoad ==
    /\ call = "dbv"
    /\ pc = "parse_yaml_content"
    /\ IF root.t = "error"
       THEN /\ Raised(yaml_parsing_error("dbv", root))
            /\ UNCHANGED yamlVars
       ELSE /\ root' = LoadedRoot(root)
            /\ data' = DbvData0
            /\ pc' = "Header"
            /\ UNCHANGED <<result, log>>
    /\ UNCHANGED <<call, callVars, textVars, pathVars>>

DbvStatement(section, next) ==
    /\ call = "dbv"
    /\ pc = section
    /\ \E r \in DbvSection(fs, current_file_path, root, data, section) :
          IF r.kind = "raise" THEN Raised(r) /\ UNCHANGED data
          ELSE /\ data' = r.value
               /\ pc' = next
               /\ UNCHANGED <<result, log>>
    /\ UNCHANGED <<call, callVars, textVars, pathVars, root>>

\* if 'Header' in root: data.header = self.parse_header(root['Header'])
DbvHeader == DbvStatement("Header", "ChipletDef")

\* if 'ChipletDef' in root: data.chiplet_defs = self._parse_chiplet_defs(...)
DbvChipletDef == DbvStatement("ChipletDef", "return")

\* return data
DbvReturn ==
    /\ call = "dbv"
    /\ pc = "return"
    /\ result' = Return(data)
    /\ pc' = "done"
    /\ UNCHANGED <<call, callVars, textVars, pathVars, yamlVars, log>>

NextDbv ==
    \/ DbvLoad
    \/ DbvHeader
    \/ DbvChipletDef
    \/ DbvReturn

SpecDbv == InitDbv /\ [][NextDbv]_vars

(***************************************************************************)
(* BmapParser                                                              *)
(***************************************************************************)
\* BumpMapData()
BumpMapData0 == [entries |-> <<>>]

\* str(self.current_file_path): a Path, or None before any parse_file
bmap_file_text(cfp) ==
    IF cfp = None THEN <<"N", "o", "n", "e">> ELSE PathStr(PathOf(cfp))

\* `line = line.strip()`, `if not line or line.startswith('#'): continue`
bmap_skipped(line) == strip(line) = <<>> \/ startswith(strip(line), <<"#">>)

\* the ValueError of a line that has not six columns
ColumnsError(tokens) ==
    Raise("ValueError",
          <<Lit("Line has "), Text(IntText(Len(tokens))), Lit(" columns, expected 6. "),
            Lit("Format: bumpInstName bumpCellType x y portName netName")>>)

\* the statements of _parse_line after the column count
bmap_entry(tokens) ==
    IF float_of_text(tokens[3]).kind = "raise"
    THEN Raise("ValueError",
               <<Lit("Invalid coordinate format: ")>> \o float_of_text(tokens[3]).msg)
    ELSE IF float_of_text(tokens[4]).kind = "raise"
    THEN Raise("ValueError",
               <<Lit("Invalid coordinate format: ")>> \o float_of_text(tokens[4]).msg)
    ELSE Return([bump_inst_name |-> tokens[1], bump_cell_type |-> tokens[2],
                 x |-> float_of_text(tokens[3]).value,
                 y |-> float_of_text(tokens[4]).value,
                 port_name |-> tokens[5], net_name |-> tokens[6]])

\* a _parse_line that reads the first six of six or more columns
parse_line_AtLeastSix(line, number) ==
    IF Len(split(line)) < 6 THEN ColumnsError(split(line)) ELSE bmap_entry(split(line))

\* _parse_line(line, line_number)
parse_line(line, number) ==
    IF Len(split(line)) # 6 THEN ColumnsError(split(line)) ELSE bmap_entry(split(line))

\* the ValueError _parse_content raises for the ValueError e of a line
bmap_error(cfp, number, e) ==
    Raise("ValueError",
          <<Lit("Bump Map Parser Error: file "), Text(bmap_file_text(cfp)),
            Lit(" Line "), Text(IntText(number)), Lit(" - ")>> \o e.msg)

(***************************************************************************)
(* Inputs of BmapParser._parse_content                                     *)
(***************************************************************************)
BmapFile == <<"/", "a", "/", "x", ".", "b">>

\* lines of a bump map: entries, skipped lines, lines with five and seven
\* columns, lines with a non-numeric x or y
BmapLines ==
    { <<"b", " ", "T", " ", "1", ".", "5", " ", "2", " ", "P", " ", "N">>,
      <<" ", "c", "\t", "T", " ", "-", "3", " ", ".", "5", " ", "#", " ", "N", " ">>,
      <<>>,
      <<" ", "\t">>,
      <<" ", "#", "b", " ", "T">>,
      <<"b", " ", "T", " ", "1", " ", "2", " ", "P">>,
      <<"b", " ", "T", " ", "1", " ", "2", " ", "P", " ", "N", " ", "X">>,
      <<"b", " ", "T", " ", "x", " ", "y", " ", "P", " ", "N">>,
      <<"b", " ", "T", " ", "1", " ", "2", ".", "3", ".", "4", " ", "P", " ", "N">> }

BmapInputs ==
    { join_lines(ls) \o nl : ls \in SeqsUpTo(BmapLines, MaxLines), nl \in {<<>>, <<NL>>} }

(***************************************************************************)
(* BmapParser._parse_content, one step per line                            *)
(***************************************************************************)
InitBmap ==
    /\ call = "bmap"
    /\ pc = "parse_content"
    /\ current_file_path \in {None, BmapFile}
    /\ path_pattern = <<>>
    /\ fs = NoFiles
    /\ content \in BmapInputs
    /\ lines = <<>>
    /\ line_number = 0
    /\ defines = <<>>
    /\ processed_lines = <<>>
    /\ root = NoDocument
    /\ data = NoData
    /\ result = NoResult
    /\ log = <<>>
    /\ filename_arg = current_file_path
    /\ calls = 0
    /\ running = 1
    /\ other = NoThread

\* data = BumpMapData(); enumerate(content.splitlines(), start=1)
BmapEnter ==
    /\ call = "bmap"
    /\ pc = "parse_content"
    /\ data' = BumpMapData0
    /\ lines' = splitlines(content)
    /\ line_number' = 0
    /\ pc' = "lines"
    /\ UNCHANGED <<call, callVars, content, defines, processed_lines, pathVars, root, result, log>>

\* the next line is blank or a comment: continue
BmapSkip ==
    /\ call = "bmap"
    /\ pc = "lines"
    /\ line_number < Len(lines)
    /\ bmap_skipped(lines[line_number + 1])
    /\ line_number' = line_number + 1
    /\ UNCHANGED <<call, callVars, pc, content, lines, defines, processed_lines, pathVars, yamlVars,
                   result, log>>

\* entry = self._parse_line(line, line_number); data.entries.append(entry)
BmapEntry ==
    /\ call = "bmap"
    /\ pc = "lines"
    /\ line_number < Len(lines)
    /\ ~bmap_skipped(lines[line_number + 1])
    /\ LET entry == parse_line(strip(lines[line_number + 1]), line_number + 1)
       IN  /\ entry.kind = "return"
           /\ data' = [data EXCEPT !.entries = Append(@, entry.value)]
    /\ line_number' = line_number + 1
    /\ UNCHANGED <<call, callVars, pc, content, lines, defines, processed_lines, pathVars, root,
                   result, log>>

\* except ValueError as e: self.logger.error(error_msg); raise ValueError(error_msg)
BmapError ==
    /\ call = "bmap"
    /\ pc = "lines"
    /\ line_number < Len(lines)
    /\ ~bmap_skipped(lines[line_number + 1])
    /\ LET e == parse_line(strip(lines[line_number + 1]), line_number + 1)
       IN  /\ e.kind = "raise"
           /\ result' = bmap_error(current_file_path, line_number + 1, e)
           /\ log' = Append(log, bmap_error(current_file_path, line_number + 1, e).msg)
    /\ line_number' = line_number + 1
    /\ pc' = "done"
    /\ UNCHANGED <<call, callVars, content, lines, defines, processed_lines, pathVars, yamlVars>>

\* return data
BmapReturn ==
    /\ call = "bmap"
    /\ pc = "lines"
    /\ line_number = Len(lines)
    /\ result' = Return(data)
    /\ pc' = "done"
    /\ UNCHANGED <<call, callVars, textVars, pathVars, yamlVars, log>>

NextBmap ==
    \/ BmapEnter
    \/ BmapSkip
    \/ BmapEntry
    \/ BmapError
    \/ BmapReturn

SpecBmap == InitBmap /\ [][NextBmap]_vars

(***************************************************************************)
(* DBX documents that give or leave out each key of each entry             *)
(***************************************************************************)
\* Design with a name, without one, with a null name
DesignFieldNodes ==
    { YMap(<< <<"name", YStr(<<"t">>)>> >>), YMap(<<>>), YMap(<< <<"name", YNull>> >>) }

\* `reference`: absent, null, a name, a name no library defines
References == { NoField, YNull, YStr(<<"c", "A">>), YStr(<<"z", "z">>) }

\* i1 with each reference, followed or not by an i2 with or without one
ChipletInstFieldNodes ==
    { YMap(<< <<"i1", Fields(<< <<"reference", reference>> >>)>> >> \o rest) :
        reference \in References,
        rest \in { <<>>,
                   << <<"i2", InstanceNode>> >>,
                   << <<"i2", YMap(<<>>)>> >> } }

\* a Stack entry with each subset of loc, z and orient, or a null orient
StackFieldNodes ==
    { Fields(<< <<"loc", loc>>, <<"z", z>>, <<"orient", orient>> >>) :
        loc \in { NoField, YList(<<YInt(5), YFloat(25, 1)>>) },
        z \in { NoField, YFloat(15, 1) },
        orient \in { NoField, YStr(<<"M", "X">>), YNull } }

\* the entry of i1 alone, or the entry of i2 after a complete one of i1
StackSectionNodes ==
    { YMap(<< <<"i1", entry>> >>) : entry \in StackFieldNodes }
    \cup { YMap(<< <<"i1", StackNodeA>>, <<"i2", entry>> >>) : entry \in StackFieldNodes }

\* `top` / `bot`: absent, null, a region of a declared instance, a region of
\* an instance nothing declares, a text of another form
Endpoints ==
    { NoField, YNull,
      YStr(<<"i", "1", ".", "r", "e", "g", "i", "o", "n", "s", ".", "r", "1">>),
      YStr(<<"g", ".", "r", "e", "g", "i", "o", "n", "s", ".", "q">>),
      YStr(<<"z", "z">>) }

ConnectionFieldNodes ==
    { Fields(<< <<"top", top>>, <<"bot", bot>> >>) : top \in Endpoints, bot \in Endpoints }

\* the entry of c1 alone, or an entry of c2 that lacks a key after c1
ConnectionSectionNodes ==
    { YMap(<< <<"c1", entry>> >>) : entry \in ConnectionFieldNodes }
    \cup { YMap(<< <<"c1", Fields(<< <<"top", YNull>>, <<"bot", YNull>> >>)>>,
                   <<"c2", Fields(<< <<"top", top>>, <<"bot", bot>> >>)>> >>) :
             top \in { NoField, YStr(<<"z", "z">>) }, bot \in { NoField, YNull } }

FieldDocuments ==
    { YMap(<< <<"Design", design>>, <<"ChipletInst", instances>>, <<"Stack", stack>>,
              <<"Connection", connections>> >>) :
        design \in DesignFieldNodes, instances \in ChipletInstFieldNodes,
        stack \in StackSectionNodes, connections \in ConnectionSectionNodes }

InitDbxFields == DbxCall(FieldDocuments)

SpecDbxFields == InitDbxFields /\ [][NextDbx]_vars

(***************************************************************************)
(* DBV documents that give each field of a chiplet in each of its forms    *)
(***************************************************************************)
\* the forms of LEF_file, APR_tech_file and liberty_file: absent, a scalar,
\* the one-element list of it, a wildcard, lists of two, an empty list, a
\* number, a wildcard in the directory m that does not exist
FileListNodes ==
    { NoField,
      YStr(<<"l", "/", "a", ".", "l">>),
      YList(<<YStr(<<"l", "/", "a", ".", "l">>)>>),
      YStr(<<"l", "/", "*", ".", "l">>),
      YList(<<YStr(<<"l", "/", "*", ".", "l">>)>>),
      YList(<<YStr(<<"l", "/", "b", ".", "l">>), YStr(<<"l", "/", "*", ".", "l">>)>>),
      YList(<<>>),
      YInt(5),
      YList(<<YInt(5)>>),
      YStr(<<"m", "/", "*", ".", "l">>) }

DefFileNodes ==
    { NoField, YStr(<<"x", ".", "d">>), YStr(<<"l", "/", "*", ".", "l">>) }

ExternalNodes ==
    { Fields(<< <<"LEF_file", lef>>, <<"APR_tech_file", tech>>, <<"liberty_file", lib>>,
                <<"DEF_file", def>> >>) :
        lef \in FileListNodes, tech \in FileListNodes, lib \in FileListNodes,
        def \in DefFileNodes }

\* one chiplet cA of type die with each external section
ExternalDocuments ==
    { YMap(<< <<"ChipletDef",
                YMap(<< <<"cA", YMap(<< <<"type", YStr(<<"d", "i", "e">>)>>,
                                        <<"external", external>> >>)>> >>)>> >>) :
        external \in ExternalNodes }

\* the entries of an include list: a file, a wildcard, an empty text, null,
\* a number, a wildcard in the directory m that does not exist
IncludeEntries ==
    { YStr(<<"l", "/", "a", ".", "l">>), YStr(<<"l", "/", "*", ".", "l">>), YStr(<<>>), YNull,
      YInt(5), YStr(<<"m", "/", "*", ".", "l">>) }

\* `include` absent, a scalar, null, or a list of up to two entries
IncludeNodes ==
    { NoField, YStr(<<"l", "/", "a", ".", "l">>), YNull }
        \cup { YList(entries) : entries \in SeqsUpTo(IncludeEntries, 2) }

HeaderFieldNodes ==
    { Fields(<< <<"version", version>>, <<"unit", unit>>, <<"precision", precision>>,
                <<"include", include>> >>) :
        version \in { NoField, YStr(<<"1">>) }, unit \in { NoField, YStr(<<"u", "m">>) },
        precision \in { NoField, YInt(2) }, include \in IncludeNodes }

\* documents with each Header and with none, with a chiplet or without
HeaderDocuments ==
    { Fields(<< <<"Header", header>>, <<"ChipletDef", chiplets>> >>) :
        header \in HeaderFieldNodes \cup { NoField },
        chiplets \in { NoField,
                        YMap(<< <<"cA", YMap(<< <<"type", YStr(<<"d", "i", "e">>)>> >>)>> >>) } }

\* chiplets of type die that give or leave out each numeric field and tsv
OptionalFieldNodes ==
    { Fields(<< <<"type", YStr(<<"d", "i", "e">>)>>, <<"design_area", area>>,
                <<"seal_ring_width", seal>>, <<"scribe_line_remaining_width", scribe>>,
                <<"thickness", thickness>>, <<"shrink", shrink>>, <<"tsv", tsv>> >>) :
        area \in { NoField, YList(<<YInt(10), YInt(20)>>) },
        seal \in { NoField, YList(<<YInt(1), YInt(2), YInt(3), YInt(4)>>) },
        scribe \in { NoField, YList(<<YInt(4), YInt(3), YInt(2), YInt(1)>>) },
        thickness \in { NoField, YInt(7) },
        shrink \in { NoField, YFloat(5, 1) },
        tsv \in { NoField, YBool(TRUE) } }

\* one such chiplet after a complete one, under each kind of Header
OptionalFieldDocuments ==
    { Fields(<< <<"Header", header>>,
                <<"ChipletDef", YMap(<< <<"cA", FullChiplet>>, <<"cB", chiplet>> >>)>> >>) :
        header \in { NoField, YMap(<<>>), YMap(<< <<"version", YStr(<<"1">>)>> >>),
                     YMap(<< <<"precision", YInt(2)>> >>) },
        chiplet \in OptionalFieldNodes }

DbvFieldDocuments == ExternalDocuments \cup HeaderDocuments \cup OptionalFieldDocuments

DbvCall(documents) ==
    /\ call = "dbv"
    /\ pc = "parse_yaml_content"
    /\ current_file_path = DbxFile
    /\ path_pattern = <<>>
    /\ fs = DbxFilesystem
    /\ content = <<>>
    /\ lines = <<>>
    /\ line_number = 0
    /\ defines = <<>>
    /\ processed_lines = <<>>
    /\ root \in documents
    /\ data = NoData
    /\ result = NoResult
    /\ log = <<>>
    /\ filename_arg = current_file_path
    /\ calls = 0
    /\ running = 1
    /\ other = NoThread

InitDbvFields == DbvCall(DbvFieldDocuments)

SpecDbvFields == InitDbvFields /\ [][NextDbv]_vars

(***************************************************************************)
(* One call of any of the three parsers                                    *)
(***************************************************************************)
InitParsers == InitDbx \/ InitDbv \/ InitBmap

NextParsers == NextDbx \/ NextDbv \/ NextBmap

SpecParsers == InitParsers /\ [][NextParsers]_vars

(***************************************************************************)
(* ThreeDBloxParser.parse and the parse_file of the three parsers          *)
(*                                                                         *)
(* Here a filesystem also has `text`, the content of each regular file by  *)
(* its real path; Undecodable is a content that is not UTF-8 (no text is   *)
(* this sequence).                                                         *)
(***************************************************************************)
Uppercase ==
    <<"A", "B", "C", "D", "E", "F", "G", "H", "I", "J", "K", "L", "M",
      "N", "O", "P", "Q", "R", "S", "T", "U", "V", "W", "X", "Y", "Z">>

Lowercase ==
    <<"a", "b", "c", "d", "e", "f", "g", "h", "i", "j", "k", "l", "m",
      "n", "o", "p", "q", "r", "s", "t", "u", "v", "w", "x", "y", "z">>

\* str.lower() on ASCII text
lower(s) ==
    [i \in 1..Len(s) |->
        IF \E k \in 1..26 : Uppercase[k] = s[i]
        THEN Lowercase[CHOOSE k \in 1..26 : Uppercase[k] = s[i]]
        ELSE s[i]]

\* str.rfind(c) for a single character, 1-based; 0 when absent
rfind(s, c) ==
    IF \E i \in 1..Len(s) : s[i] = c
    THEN CHOOSE i \in 1..Len(s) : s[i] = c /\ \A j \in (i + 1)..Len(s) : s[j] # c
    ELSE 0

\* path.suffix: from the last dot of the name, unless that dot is its first
\* or its last character
PathSuffix(p) ==
    IF 1 < rfind(PathName(p), ".") /\ rfind(PathName(p), ".") < Len(PathName(p))
    THEN SubSeq(PathName(p), rfind(PathName(p), "."), Len(PathName(p)))
    ELSE <<>>

\* a dispatch that compares the extension as written
parse_extension_CaseSensitive(fname) == PathSuffix(PathOf(fname))

\* extension = Path(filename).suffix.lower()
parse_extension(fname) == lower(PathSuffix(PathOf(fname)))

\* the if / elif chain of parse: the parser it calls, "none" for the else
ParserOf(extension) ==
    CASE extension = <<".", "3", "d", "b", "v">> -> "dbv"
      [] extension = <<".", "3", "d", "b", "x">> -> "dbx"
      [] extension = <<".", "b", "m", "a", "p">> -> "bmap"
      [] OTHER -> "none"

\* raise ValueError(f"Unknown file extension: {extension}. Expected ...")
UnknownExtension(extension) ==
    Raise("ValueError",
          <<Lit("Unknown file extension: "), Text(extension), Lit(". "),
            Lit("Expected .3dbv, .3dbx, or .bmap")>>)

Undecodable == <<"bytes">>

\* str(e) of the OSError of open(path, 'r'), <<>> when the file opens
OpenError(f, fname) ==
    IF PathIsFile(f, PathOf(fname)) THEN <<>>
    ELSE IF PathIsDir(f, PathOf(fname))
    THEN <<Lit("[Errno 21] Is a directory: '"), Text(PathStr(PathOf(fname))), Lit("'")>>
    ELSE <<Lit("[Errno 2] No such file or directory: '"), Text(PathStr(PathOf(fname))),
           Lit("'")>>

\* f.read() of a file that opens
ReadText(f, fname) == f.text[RealOf(f, PathOf(fname))]

\* a parse_file that lets the IOError of open() pass in every parser
parse_file_open_IOError(kind, f, fname) ==
    IF OpenError(f, fname) # <<>>
    THEN Raise("OSError", OpenError(f, fname))
    ELSE IF ReadText(f, fname) = Undecodable
    THEN Raise("UnicodeDecodeError", <<Lit("'utf-8' codec can't decode byte")>>)
    ELSE NoResult

\* parse_file up to `content = f.read()`: what it raises, NoResult when the
\* content was read.  DbvParser and DbxParser hand the IOError to
\* log_error, BmapParser raises IOError (OSError); a decoding error is no
\* IOError and passes through
parse_file_open(kind, f, fname) ==
    IF OpenError(f, fname) # <<>>
    THEN IF kind = "bmap"
         THEN Raise("OSError", <<Lit("Bump Map Parser Error: Cannot open file: "), Text(fname)>>)
         ELSE log_error(<<Lit("Cannot open file: "), Text(fname), Lit(" - ")>>
                        \o OpenError(f, fname))
    ELSE IF ReadText(f, fname) = Undecodable
    THEN Raise("UnicodeDecodeError", <<Lit("'utf-8' codec can't decode byte")>>)
    ELSE NoResult

\* the texts that the model of yaml.safe_load decodes: the empty document and
\* a Header with one include, written in flow style
IncludeOpen ==
    <<"H", "e", "a", "d", "e", "r", ":", " ", "{", "i", "n", "c", "l", "u", "d", "e", ":",
      " ", "[">>

IncludeClose == <<"]", "}">>

WordChars ==
    { Uppercase[k] : k \in 1..26 } \cup { Lowercase[k] : k \in 1..26 }
        \cup { Digits[k] : k \in 1..10 } \cup {".", "/", "_", "*"}

\* a plain scalar that the decoder resolves to a string: it starts with a
\* letter and is none of the words resolved to a boolean or to null
PlainString(token) ==
    /\ token # <<>>
    /\ \A i \in 1..Len(token) : token[i] \in WordChars
    /\ token[1] \notin { Digits[k] : k \in 1..10 } \cup {".", "/", "_", "*"}
    /\ lower(token) \notin { <<"t", "r", "u", "e">>, <<"f", "a", "l", "s", "e">>,
                             <<"y", "e", "s">>, <<"n", "o">>, <<"o", "n">>,
                             <<"o", "f", "f">>, <<"n", "u", "l", "l">>,
                             <<"y">>, <<"n">> }

IncludeToken(text) ==
    SubSeq(text, Len(IncludeOpen) + 1, Len(text) - Len(IncludeClose))

\* how many times the character c stands in text
Occurrences(text, c) == Cardinality({ i \in 1..Len(text) : text[i] = c })

\* a flow mapping whose brackets or braces do not pair up: the decoder
\* reports a syntax error on it
Unbalanced(text) ==
    /\ startswith(text, IncludeOpen)
    /\ \/ Occurrences(text, "[") # Occurrences(text, "]")
       \/ Occurrences(text, "{") # Occurrences(text, "}")

\* str(e) of the yaml.YAMLError the decoder raises
DecoderMessage == <<Lit("while parsing a flow node")>>

\* yaml.safe_load(content) on these texts
safe_load(text) ==
    CASE text = <<>> -> YNull
      [] Unbalanced(text) -> YError(DecoderMessage)
      [] /\ startswith(text, IncludeOpen)
         /\ endswith(text, IncludeClose)
         /\ PlainString(IncludeToken(text)) ->
            YMap(<< <<"Header",
                      YMap(<< <<"include", YList(<<YStr(IncludeToken(text))>>)>> >>)>> >>)

(***************************************************************************)
(* Inputs of parse and parse_file                                          *)
(***************************************************************************)
ParseFilenames ==
    { <<"/", "a", "/", "d", ".", "3", "d", "b", "x">>,
      <<"/", "a", "/", "d", ".", "3", "D", "B", "X">>,
      <<"d", ".", "3", "d", "b", "x">>,
      <<"/", "a", "/", ".", "/", "d", ".", "3", "d", "b", "x">>,
      <<"/", "a", "/", "v", ".", "3", "d", "b", "v">>,
      <<"/", "a", "/", "v", ".", "3", "D", "b", "v">>,
      <<"/", "a", "/", "m", ".", "b", "m", "a", "p">>,
      <<"/", "a", "/", "m", ".", "B", "M", "A", "P">>,
      <<"/", "a", "/", "m", ".", "B", "m", "a", "p">>,
      <<"/", "a", "/", "d", ".", "3", "d", "b", "x", ".", "b", "m", "a", "p">>,
      <<"/", "a", "/", "m", ".", "b", "m", "a", "p", ".", "b", "a", "k">>,
      <<"/", "a", "/", "m", ".", "t", "x", "t">>,
      <<"/", "a", "/", "m", "b", "m", "a", "p">>,
      <<"/", "a", "/", ".", "b", "m", "a", "p">>,
      <<"/", "a", "/", "m", ".", "b", "m", "a", "p", ".">>,
      <<"/", "a", ".", "3", "d", "b", "x", "/", "m">> }

\* "#!define A l/b.l" then a Header that includes A; the same without the
\* directive; the include written out; an include of every .l file of the
\* directory m, which does not exist; an empty file; an include list that is
\* never closed; a list that the value of A opens a second time
YamlTexts ==
    { <<>>,
      IncludeOpen \o <<"m", "/", "*", ".", "l">> \o IncludeClose,
      IncludeOpen \o <<"l", "/", "b", ".", "l">> \o IncludeClose,
      IncludeOpen \o <<"A">> \o IncludeClose,
      <<"#", "!", "d", "e", "f", "i", "n", "e", " ", "A", " ", "l", "/", "b", ".", "l", NL>>
          \o IncludeOpen \o <<"A">> \o IncludeClose \o <<NL>>,
      IncludeOpen \o <<"l", "/", "b", ".", "l", "}">>,
      <<"#", "!", "d", "e", "f", "i", "n", "e", " ", "A", " ", "b", ",", " ", "[", NL>>
          \o IncludeOpen \o <<"A">> \o IncludeClose \o <<NL>> }

BmapTexts == { join_lines(ls) : ls \in SeqsUpTo(BmapLines, 1) }

FileKinds == {"text", "bytes", "dir", "missing"}

\* the base directories and include targets, with `fname` as a file of the
\* given kind
ParseFilesystem(fname, kind, text) ==
    [dirs  |-> BaseDirs \cup
                 (IF kind = "dir" THEN {PathAbsolute(PathOf(fname)).parts} ELSE {}),
     files |-> DbxFilesystem.files \cup
                 (IF kind \in {"text", "bytes"} THEN {PathAbsolute(PathOf(fname)).parts}
                  ELSE {}),
     links |-> {},
     text  |-> [p \in DbxFilesystem.files \cup {PathAbsolute(PathOf(fname)).parts} |->
                   IF p # PathAbsolute(PathOf(fname)).parts THEN <<>>
                   ELSE IF kind = "bytes" THEN Undecodable ELSE text]]

TextsFor(fname) ==
    IF ParserOf(parse_extension(fname)) = "bmap" THEN BmapTexts ELSE YamlTexts

(***************************************************************************)
(* ThreeDBloxParser.parse: dispatch, then the parse_file of a fresh parser *)
(***************************************************************************)
InitParse ==
    /\ call = "parse"
    /\ pc = "parse"
    /\ filename_arg \in ParseFilenames
    /\ calls = 0
    /\ current_file_path = None
    /\ path_pattern = <<>>
    /\ \E kind \in FileKinds, text \in TextsFor(filename_arg) :
          fs = ParseFilesystem(filename_arg, kind, text)
    /\ content = <<>>
    /\ lines = <<>>
    /\ line_number = 0
    /\ defines = <<>>
    /\ processed_lines = <<>>
    /\ root = NoDocument
    /\ data = NoData
    /\ result = NoResult
    /\ log = <<>>
    /\ running = 1
    /\ other = NoThread

\* filepath = Path(filename); extension = filepath.suffix.lower(); the
\* parser chosen is constructed and handed filepath, or ValueError is raised
Parse ==
    /\ call = "parse"
    /\ pc = "parse"
    /\ IF ParserOf(parse_extension(filename_arg)) = "none"
       THEN /\ result' = UnknownExtension(parse_extension(filename_arg))
            /\ pc' = "done"
            /\ UNCHANGED <<call, filename_arg>>
       ELSE /\ call' = ParserOf(parse_extension(filename_arg))
            /\ filename_arg' = PathStr(PathOf(filename_arg))
            /\ pc' = "parse_file"
            /\ UNCHANGED result
    /\ UNCHANGED <<calls, threadVars, textVars, pathVars, yamlVars, log>>

\* self.current_file_path = Path(filename); open and read the file
ParseFileOpen ==
    /\ call \in {"dbv", "dbx", "bmap"}
    /\ pc = "parse_file"
    /\ current_file_path' = PathStr(PathOf(filename_arg))
    /\ calls' = calls + 1
    /\ IF parse_file_open(call, fs, filename_arg).kind = "raise"
       THEN /\ result' = parse_file_open(call, fs, filename_arg)
            /\ log' = IF result'.exc \in {"ParserError", "OSError"}
                      THEN Append(log, result'.msg) ELSE log
            /\ pc' = "done"
            /\ UNCHANGED content
       ELSE /\ content' = ReadText(fs, filename_arg)
            /\ pc' = IF call = "bmap" THEN "parse_content" ELSE "parse_defines"
            /\ UNCHANGED <<result, log>>
    /\ lines' = <<>>
    /\ line_number' = 0
    /\ processed_lines' = <<>>
    /\ UNCHANGED <<call, filename_arg, threadVars, defines, path_pattern, fs, yamlVars>>

\* content = self.parse_defines(content) returns; yaml.safe_load(content)
ParseFileDecode ==
    /\ call \in {"dbv", "dbx"}
    /\ pc = "for_line"
    /\ line_number = Len(lines)
    /\ content' = join_lines(processed_lines)
    /\ root' = safe_load(join_lines(processed_lines))
    /\ pc' = "parse_yaml_content"
    /\ UNCHANGED <<call, callVars, lines, line_number, defines, processed_lines, pathVars,
                   data, result, log>>

NextParse ==
    \/ Parse
    \/ ParseFileOpen
    \/ ParseDefinesEnter
    \/ ParseDefinesDirective
    \/ ParseDefinesResolve
    \/ ParseFileDecode
    \/ NextDbx
    \/ NextDbv
    \/ NextBmap

SpecParse == InitParse /\ [][NextParse]_vars

(***************************************************************************)
(* parse_file as a function of the file and the filesystem                 *)
(***************************************************************************)
\* the loop of parse_defines over the lines left, from an empty table
RECURSIVE DefinesLoop(_, _, _)
DefinesLoop(ls, defs, processed) ==
    IF ls = <<>> THEN processed
    ELSE IF IsDirective(ls[1])
    THEN DefinesLoop(Tail(ls), DefinesAfter(defs, ls[1]), processed)
    ELSE DefinesLoop(Tail(ls), defs, Append(processed, ResolveLine(ls[1], defs)))

\* parse_defines(content) of a parser whose table is empty or not: the
\* table is cleared first
parse_defines(text) == join_lines(DefinesLoop(splitlines(text), <<>>, <<>>))

\* the loop of BmapParser._parse_content from line n on
RECURSIVE BmapLoop(_, _, _, _)
BmapLoop(cfp, ls, n, d) ==
    IF n > Len(ls) THEN Return(d)
    ELSE IF bmap_skipped(ls[n]) THEN BmapLoop(cfp, ls, n + 1, d)
    ELSE IF parse_line(strip(ls[n]), n).kind = "raise"
    THEN bmap_error(cfp, n, parse_line(strip(ls[n]), n))
    ELSE BmapLoop(cfp, ls, n + 1,
                  [d EXCEPT !.entries = Append(@, parse_line(strip(ls[n]), n).value)])

\* the outcomes of parse_file(fname) of a new DbvParser, DbxParser or
\* BmapParser
parse_file(kind, f, fname) ==
    IF parse_file_open(kind, f, fname).kind = "raise"
    THEN { parse_file_open(kind, f, fname) }
    ELSE IF kind = "dbx"
    THEN dbx_parse_yaml_content(f, PathStr(PathOf(fname)),
                                safe_load(parse_defines(ReadText(f, fname))))
    ELSE IF kind = "dbv"
    THEN dbv_parse_yaml_content(f, PathStr(PathOf(fname)),
                                safe_load(parse_defines(ReadText(f, fname))))
    ELSE { BmapLoop(PathStr(PathOf(fname)), splitlines(ReadText(f, fname)), 1,
                    BumpMapData0) }

(***************************************************************************)
(* A sequence of parse_file calls on one DbvParser or DbxParser            *)
(***************************************************************************)
MaxCalls == 2

\* /a/d.3dbx defines A and includes it; /a/e.3dbx includes A and defines
\* nothing; /r/f.3dbx includes l/b.l; /a/g.3dbx defines A and fails on its
\* include; /a/u.3dbx is not UTF-8; /a/n.3dbx does not exist
CallTexts ==
    { [path |-> << <<"a">>, <<"d", ".", "3", "d", "b", "x">> >>,
       text |-> <<"#", "!", "d", "e", "f", "i", "n", "e", " ", "A", " ", "l", "/", "b", ".",
                  "l", NL>> \o IncludeOpen \o <<"A">> \o IncludeClose \o <<NL>>],
      [path |-> << <<"a">>, <<"e", ".", "3", "d", "b", "x">> >>,
       text |-> IncludeOpen \o <<"A">> \o IncludeClose],
      [path |-> << <<"r">>, <<"f", ".", "3", "d", "b", "x">> >>,
       text |-> IncludeOpen \o <<"l", "/", "b", ".", "l">> \o IncludeClose],
      [path |-> << <<"a">>, <<"g", ".", "3", "d", "b", "x">> >>,
       text |-> <<"#", "!", "d", "e", "f", "i", "n", "e", " ", "A", " ", "m", "/", "*", ".",
                  "l", NL>> \o IncludeOpen \o <<"A">> \o IncludeClose],
      [path |-> << <<"a">>, <<"u", ".", "3", "d", "b", "x">> >>,
       text |-> Undecodable] }

CallFiles ==
    { PathStr([abs |-> TRUE, parts |-> t.path]) : t \in CallTexts }
        \cup { <<"/", "a", "/", "n", ".", "3", "d", "b", "x">> }

CallFilesystem ==
    [dirs  |-> BaseDirs,
     files |-> DbxFilesystem.files \cup { t.path : t \in CallTexts },
     links |-> {},
     text  |-> [p \in DbxFilesystem.files \cup { t.path : t \in CallTexts } |->
                   IF \E t \in CallTexts : t.path = p
                   THEN (CHOOSE t \in CallTexts : t.path = p).text
                   ELSE <<>>]]

InitCalls ==
    /\ call \in {"dbv", "dbx"}
    /\ pc = "parse_file"
    /\ filename_arg \in CallFiles
    /\ calls = 0
    /\ current_file_path = None
    /\ path_pattern = <<>>
    /\ fs = CallFilesystem
    /\ content = <<>>
    /\ lines = <<>>
    /\ line_number = 0
    /\ defines = <<>>
    /\ processed_lines = <<>>
    /\ root = NoDocument
    /\ data = NoData
    /\ result = NoResult
    /\ log = <<>>
    /\ running = 1
    /\ other = NoThread

\* the caller calls parse_file of the same parser again, after a return or
\* an exception; the locals of the call that ended are gone
ParseFileAgain ==
    /\ call \in {"dbv", "dbx"}
    /\ pc = "done"
    /\ calls < MaxCalls
    /\ \E fname \in CallFiles : filename_arg' = fname
    /\ pc' = "parse_file"
    /\ result' = NoResult
    /\ content' = <<>>
    /\ root' = NoDocument
    /\ data' = NoData
    /\ UNCHANGED <<call, calls, threadVars, lines, line_number, defines, processed_lines,
                   pathVars, log>>

NextCalls ==
    \/ ParseFileOpen
    \/ ParseDefinesEnter
    \/ ParseDefinesDirective
    \/ ParseDefinesResolve
    \/ ParseFileDecode
    \/ NextDbx
    \/ NextDbv
    \/ ParseFileAgain

SpecCalls == InitCalls /\ [][NextCalls]_vars

(***************************************************************************)
(* Two threads, each in a parse_file call of a parser of its own           *)
(*                                                                         *)
(* parse_dbv, parse_dbx and parse_bmap construct the parser they call, so  *)
(* the table, the current file and the locals of a call belong to one      *)
(* thread; the threads have the filesystem and the logger in common.  The  *)
(* variables of the call hold the thread that runs, `other` the one that   *)
(* waits, and a switch of threads exchanges them.                          *)
(***************************************************************************)
\* /a/m.bmap holds a comment and an entry, /a/x.bmap a line of three columns
BmapCallTexts ==
    { [path |-> << <<"a">>, <<"m", ".", "b", "m", "a", "p">> >>,
       text |-> <<"#", " ", "c", NL, "b", " ", "T", " ", "1", " ", "2", " ", "P", " ", "N", NL>>],
      [path |-> << <<"a">>, <<"x", ".", "b", "m", "a", "p">> >>,
       text |-> <<"b", " ", "T", " ", "1">>] }

ThreadTexts == CallTexts \cup BmapCallTexts

ThreadFilesystem ==
    [dirs  |-> BaseDirs,
     files |-> DbxFilesystem.files \cup { t.path : t \in ThreadTexts },
     links |-> {},
     text  |-> [p \in DbxFilesystem.files \cup { t.path : t \in ThreadTexts } |->
                   IF \E t \in ThreadTexts : t.path = p
                   THEN (CHOOSE t \in ThreadTexts : t.path = p).text
                   ELSE <<>>]]

\* the calls a thread may make: the parser constructed and the file
ThreadCalls ==
    ({"dbv", "dbx"} \X CallFiles)
        \cup ({"bmap"} \X { PathStr([abs |-> TRUE, parts |-> t.path]) : t \in BmapCallTexts })

\* BaseParser.__init__ and the entry of parse_file: a thread about to call
\* parse_file(fname) of the parser it has constructed
NewCall(kind, fname) ==
    [call |-> kind, pc |-> "parse_file", filename_arg |-> fname, calls |-> 0,
     current_file_path |-> None, path_pattern |-> <<>>, content |-> <<>>, lines |-> <<>>,
     line_number |-> 0, defines |-> <<>>, processed_lines |-> <<>>, root |-> NoDocument,
     data |-> NoData, result |-> NoResult]

\* the call and the parser of the thread that runs
Running ==
    [call |-> call, pc |-> pc, filename_arg |-> filename_arg, calls |-> calls,
     current_file_path |-> current_file_path, path_pattern |-> path_pattern,
     content |-> content, lines |-> lines, line_number |-> line_number, defines |-> defines,
     processed_lines |-> processed_lines, root |-> root, data |-> data, result |-> result]

\* one table for the parsers of both threads
self_defines_Shared(table, own) == table

\* self._defines of the parser of the thread that resumes: `table` is the
\* one the thread that ran has, `own` the one its parser had when it stopped
self_defines(table, own) == own

InitThreads ==
    /\ \E c \in ThreadCalls :
          /\ call = c[1]
          /\ filename_arg = c[2]
    /\ \E c \in ThreadCalls : other = NewCall(c[1], c[2])
    /\ running = 1
    /\ pc = "parse_file"
    /\ calls = 0
    /\ current_file_path = None
    /\ path_pattern = <<>>
    /\ fs = ThreadFilesystem
    /\ content = <<>>
    /\ lines = <<>>
    /\ line_number = 0
    /\ defines = <<>>
    /\ processed_lines = <<>>
    /\ root = NoDocument
    /\ data = NoData
    /\ result = NoResult
    /\ log = <<>>

\* the thread that runs stops between two steps and the other one resumes
Switch ==
    /\ other # NoThread
    /\ other.pc # "done"
    /\ running' = 3 - running
    /\ other' = Running
    /\ call' = other.call
    /\ pc' = other.pc
    /\ filename_arg' = other.filename_arg
    /\ calls' = other.calls
    /\ current_file_path' = other.current_file_path
    /\ path_pattern' = other.path_pattern
    /\ content' = other.content
    /\ lines' = other.lines
    /\ line_number' = other.line_number
    /\ defines' = self_defines(defines, other.defines)
    /\ processed_lines' = other.processed_lines
    /\ root' = other.root
    /\ data' = other.data
    /\ result' = other.result
    /\ UNCHANGED <<fs, log>>

NextThreads ==
    \/ Switch
    \/ ParseFileOpen
    \/ ParseDefinesEnter
    \/ ParseDefinesDirective
    \/ ParseDefinesResolve
    \/ ParseFileDecode
    \/ NextDbx
    \/ NextDbv
    \/ NextBmap

SpecThreads == InitThreads /\ [][NextThreads]_vars

(***************************************************************************)
(* Two threads in parse_file calls of one DbvParser or DbxParser           *)
(*                                                                         *)
(* self._defines and self.current_file_path are attributes of the parser,  *)
(* so both calls read and write the same ones; the filename argument, the  *)
(* content, the loop over its lines and the decoded document are locals of *)
(* each call.                                                              *)
(***************************************************************************)
\* an attribute that every call keeps for itself
instance_attribute_PerCall(current, stored) == stored

\* self._defines / self.current_file_path as the call that resumes finds
\* them: `current` is what the call that ran left in the parser, `stored`
\* what the attribute held when the resuming call stopped
instance_attribute(current, stored) == current

InitShared ==
    /\ call \in {"dbv", "dbx"}
    /\ filename_arg \in CallFiles
    /\ \E fname \in CallFiles : other = NewCall(call, fname)
    /\ running = 1
    /\ pc = "parse_file"
    /\ calls = 0
    /\ current_file_path = None
    /\ path_pattern = <<>>
    /\ fs = CallFilesystem
    /\ content = <<>>
    /\ lines = <<>>
    /\ line_number = 0
    /\ defines = <<>>
    /\ processed_lines = <<>>
    /\ root = NoDocument
    /\ data = NoData
    /\ result = NoResult
    /\ log = <<>>

\* the thread that runs stops between two steps and the other one resumes,
\* in the same parser
SwitchShared ==
    /\ other # NoThread
    /\ other.pc # "done"
    /\ running' = 3 - running
    /\ other' = Running
    /\ call' = other.call
    /\ pc' = other.pc
    /\ filename_arg' = other.filename_arg
    /\ calls' = other.calls
    /\ current_file_path' = instance_attribute(current_file_path, other.current_file_path)
    /\ path_pattern' = other.path_pattern
    /\ content' = other.content
    /\ lines' = other.lines
    /\ line_number' = other.line_number
    /\ defines' = instance_attribute(defines, other.defines)
    /\ processed_lines' = other.processed_lines
    /\ root' = other.root
    /\ data' = other.data
    /\ result' = other.result
    /\ UNCHANGED <<fs, log>>

NextShared ==
    \/ SwitchShared
    \/ ParseFileOpen
    \/ ParseDefinesEnter
    \/ ParseDefinesDirective
    \/ ParseDefinesResolve
    \/ ParseFileDecode
    \/ NextDbx
    \/ NextDbv

SpecShared == InitShared /\ [][NextShared]_vars

(***************************************************************************)
(* parse_defines on macros that hold keys, and on keys defined again       *)
(***************************************************************************)
MaxOrderLines == 4

\* A -> AA, whose value holds its own key; B -> A, whose value is the key of
\* the other macro; a line that holds both keys
OrderLines ==
    { DefinePrefix \o <<" ", "A", " ", "A", "A">>,
      DefinePrefix \o <<" ", "B", " ", "A">>,
      <<"A", "B">> }

\* the empty text, and the texts of up to MaxOrderLines of these lines that
\* end with the line that holds the keys
OrderTexts ==
    { join_lines(ls) : ls \in { q \in SeqsUpTo(OrderLines, MaxOrderLines) :
                                  q = <<>> \/ q[Len(q)] = <<"A", "B">> } }

InitOrder ==
    /\ call = "parse_defines"
    /\ pc = "parse_defines"
    /\ current_file_path = None
    /\ path_pattern = <<>>
    /\ fs = NoFiles
    /\ content \in OrderTexts
    /\ lines = <<>>
    /\ line_number = 0
    /\ defines = <<>>
    /\ processed_lines = <<>>
    /\ root = NoDocument
    /\ data = NoData
    /\ result = NoResult
    /\ log = <<>>
    /\ filename_arg = current_file_path
    /\ calls = 0
    /\ running = 1
    /\ other = NoThread

\* the call runs on: nothing stops the interpreter between two iterations
SpecTermination == InitOrder /\ [][NextDefines]_vars /\ WF_vars(NextDefines)

(***************************************************************************)
(* Properties of parse_defines                                             *)
(***************************************************************************)
\* the loop has just resolved the non-directive line lines[line_number]
JustResolved ==
    /\ pc = "for_line"
    /\ line_number >= 1
    /\ ~startswith(lines[line_number], DefinePrefix)

LastLine == lines[line_number]

LastOut == processed_lines[Len(processed_lines)]

\* no macro other than those in `but` occurs in s
OthersAbsent(but, s) == \A m \in DictKeys(defines) \ but : ~contains(s, m)

MacroTokens == { <<"A">>, <<"B">>, <<"c">>, <<"A", "A">>, <<"A", "B">> }

\* C1: parse_defines drops every line that starts with "#!define" (the output
\* has one line per other input line); a directive `#!define KEY VALUE` binds
\* KEY to VALUE from then on, and only directives already read in this call
\* bind anything; a later line on which KEY is the only macro that applies
\* comes out with every occurrence of KEY replaced by VALUE as a plain
\* substring replacement; a line on which no macro defined so far occurs (also
\* when it holds a KEY defined further down) comes out unchanged.
C1_DefinesSubstituted ==
    /\ pc \in {"for_line", "done"} =>
          /\ Len(processed_lines) =
                Cardinality({j \in 1..line_number : ~startswith(lines[j], DefinePrefix)})
          /\ \A k \in DictKeys(defines) :
                \E j \in 1..line_number :
                    startswith(lines[j], DefinePrefix) /\ contains(lines[j], k)
    /\ \A k, v \in MacroTokens :
          ( /\ pc = "for_line"
            /\ line_number >= 1
            /\ LastLine = DefinePrefix \o <<" ">> \o k \o <<" ">> \o v )
          => (k \in DictKeys(defines) /\ DictGet(defines, k) = v)
    /\ JustResolved =>
          /\ OthersAbsent({}, LastLine) => LastOut = LastLine
          /\ \A k \in DictKeys(defines) :
                LET r == str_replace(LastLine, k, DictGet(defines, k))
                IN  (OthersAbsent({k}, LastLine) /\ OthersAbsent({k}, r)) => LastOut = r
    /\ pc = "done" => result = Return(join_lines(processed_lines))

\* C1 witness: `A` before its define is kept, the define line is dropped, and
\* both occurrences of A inside `AcA` after it are replaced.
C1_Witness ==
    /\ pc = "done"
    /\ lines = << <<"A">>, DefinePrefix \o <<" ", "A", " ", "B">>, <<"A", "c", "A">> >>
    /\ processed_lines = << <<"A">>, <<"B", "c", "B">> >>

\* the two macros i, j of the table with macro j's key inside macro i's value,
\* on a just resolved line that holds key i, not key j, and no third macro
ChainCase(i, j) ==
    /\ JustResolved
    /\ i # j
    /\ contains(defines[i][2], defines[j][1])
    /\ contains(LastLine, defines[i][1])
    /\ ~contains(LastLine, defines[j][1])
    /\ LET r1 == str_replace(LastLine, defines[i][1], defines[i][2])
           r2 == str_replace(r1, defines[j][1], defines[j][2])
       IN  /\ OthersAbsent({defines[i][1], defines[j][1]}, LastLine)
           /\ OthersAbsent({defines[i][1], defines[j][1]}, r1)
           /\ OthersAbsent({defines[i][1], defines[j][1]}, r2)

\* C2 as stated: in either order of definition the K2 inside the inserted V1
\* stays unexpanded.
C2_NeverReResolved ==
    \A i, j \in 1..Len(defines) :
        ChainCase(i, j) =>
            LastOut = str_replace(LastLine, defines[i][1], defines[i][2])

\* C2 amended: the K2 inside the inserted V1 stays unexpanded when K2 was
\* first defined before K1; when K1 was first defined before K2, the later
\* pass of K2 expands it.
C2_ReResolvedByLaterMacro ==
    \A i, j \in 1..Len(defines) :
        ChainCase(i, j) =>
            LET r1 == str_replace(LastLine, defines[i][1], defines[i][2])
            IN  LastOut = IF j < i THEN r1
                          ELSE str_replace(r1, defines[j][1], defines[j][2])

\* C2 witness: A -> B defined before B -> c turns the line `A` into `c`.
C2_Witness ==
    /\ pc = "for_line"
    /\ line_number = 3
    /\ lines = << DefinePrefix \o <<" ", "A", " ", "B">>,
                  DefinePrefix \o <<" ", "B", " ", "c">>, <<"A">> >>
    /\ processed_lines = << <<"c">> >>

(***************************************************************************)
(* Properties of resolve_path / resolve_paths                              *)
(***************************************************************************)
HasStar(text) == \E i \in 1..Len(text) : text[i] = STAR

Resolved == resolve_path(fs, current_file_path, path_pattern)

GlobDirectory == PathParent(Resolved)

DirectoryUsable == PathExists(fs, GlobDirectory) /\ PathIsDir(fs, GlobDirectory)

\* C7: a wildcard pattern whose directory is missing or is no directory makes
\* resolve_paths log one error and return the empty list.
C7_MissingDirectoryReturnsEmpty ==
    ( /\ pc = "done"
      /\ call = "resolve_paths"
      /\ HasStar(path_pattern)
      /\ ~DirectoryUsable )
    => (result = Return(<<>>) /\ Len(log) = 1)

\* name = prefix . middle . suffix for some middle, the pattern being cut at
\* its first `*`
StarMatch(name, pattern) ==
    \E k \in 1..Len(pattern) :
        /\ pattern[k] = STAR
        /\ \A j \in 1..(k - 1) : pattern[j] # STAR
        /\ \E mid \in 0..Len(name) :
              /\ k - 1 + mid <= Len(name)
              /\ name = SubSeq(pattern, 1, k - 1)
                         \o SubSeq(name, k, k + mid - 1)
                         \o SubSeq(pattern, k + 1, Len(pattern))

\* the regular files that lie directly in directory d
RegularFilesIn(d) ==
    { x[Len(x)] : x \in { y \in fs.files :
                            SubSeq(y, 1, Len(y) - 1) = RealOf(fs, d) } }

\* C8: for a pattern prefix*suffix in an existing directory resolve_paths
\* returns, each once and nothing else, the regular files of that directory
\* whose name is prefix, any middle, suffix; only the first `*` is a wildcard.
C8_GlobExactMatches ==
    ( /\ pc = "done"
      /\ call = "resolve_paths"
      /\ HasStar(PathName(Resolved))
      /\ DirectoryUsable )
    => /\ result.kind = "return"
       /\ {result.value[i] : i \in 1..Len(result.value)} =
              { PathStr(PathJoin(GlobDirectory, [abs |-> FALSE, parts |-> <<n>>])) :
                  n \in {m \in RegularFilesIn(GlobDirectory) :
                            StarMatch(m, PathName(Resolved))} }
       /\ \A i, j \in 1..Len(result.value) : result.value[i] = result.value[j] => i = j
       /\ log = <<>>

\* C8 witness: `*.l` over a.l, b.l, c.t yields exactly the two .l files.
C8_Witness ==
    /\ pc = "done"
    /\ call = "resolve_paths"
    /\ path_pattern = <<"*", ".", "l">>
    /\ current_file_path = <<"/", "a", "/", "l", "/", "d", ".", "x">>
    /\ fs.files = {Append(DirAL, n) : n \in { <<"a", ".", "l">>, <<"b", ".", "l">>, <<"c", ".", "t">> }}
    /\ result = Return(<< <<"/", "a", "/", "l", "/", "b", ".", "l">>,
                          <<"/", "a", "/", "l", "/", "a", ".", "l">> >>)

\* ".." collapsed on the text of the path alone
RECURSIVE LexCollapse(_, _)
LexCollapse(seen, todo) ==
    IF todo = <<>> THEN seen
    ELSE IF todo[1] = <<".", ".">>
         THEN LexCollapse(SubSeq(seen, 1, Len(seen) - 1), Tail(todo))
         ELSE LexCollapse(Append(seen, todo[1]), Tail(todo))

\* the relative reference joined to the directory of the current file
Joined ==
    PathAbsolute(PathJoin(PathParent(PathOf(current_file_path)), PathOf(path_pattern)))

RelativeCase ==
    /\ pc = "done"
    /\ call = "resolve_path"
    /\ current_file_path # None
    /\ ~startswith(path_pattern, <<SLASH>>)

\* C9 as stated: a relative reference resolves to the joined path with its
\* `.` and `..` segments collapsed.
C9_LexicalResolution ==
    RelativeCase =>
        result = Return([abs |-> TRUE, parts |-> LexCollapse(<<>>, Joined.parts)])

\* no directory met while collapsing the joined path is a symbolic link
NoLinkOnTheWay ==
    \A k \in 1..Len(Joined.parts) :
        \A l \in fs.links : LexCollapse(<<>>, SubSeq(Joined.parts, 1, k)) # l[1]

\* C9 amended: an absolute reference comes back as the Path of its text (not
\* joined, `..` kept); a relative one is joined to the directory of the
\* current file and resolved as the filesystem resolves it: the result is
\* absolute, free of `..` and of symbolic links, and it is the lexical
\* collapse when no directory on the way is a symbolic link; resolve_paths on
\* a pattern without `*` returns the one-element list of that resolution and
\* logs nothing, whatever files exist.
C9_ResolvedThroughLinks ==
    /\ (pc = "done" /\ call = "resolve_path" /\ startswith(path_pattern, <<SLASH>>))
          => result = Return(PathOf(path_pattern))
    /\ RelativeCase =>
          /\ result.kind = "return"
          /\ result.value.abs
          /\ \A i \in 1..Len(result.value.parts) :
                /\ result.value.parts[i] # <<".", ".">>
                /\ \A l \in fs.links : SubSeq(result.value.parts, 1, i) # l[1]
          /\ NoLinkOnTheWay =>
                result.value.parts = LexCollapse(<<>>, Joined.parts)
    /\ (pc = "done" /\ call = "resolve_paths" /\ ~HasStar(path_pattern))
          => /\ result = Return(<<PathStr(Resolved)>>)
             /\ log = <<>>

\* C9 witness: with /a/b a symbolic link to /r/s, `../l/c.l` seen from
\* /a/b/d.x is /r/l/c.l.
C9_Witness ==
    /\ pc = "done"
    /\ call = "resolve_path"
    /\ current_file_path = <<"/", "a", "/", "b", "/", "d", ".", "x">>
    /\ path_pattern = <<".", ".", "/", "l", "/", "c", ".", "l">>
    /\ fs.links = { <<DirAB, DirRS>> }
    /\ result = Return([abs |-> TRUE, parts |-> << <<"r">>, <<"l">>, <<"c", ".", "l">> >>])

(***************************************************************************)
(* Properties of DbxParser                                                 *)
(***************************************************************************)
\* the section of the decoded document, Absent when it has none
SectionOf(section) ==
    IF section \in DictKeys(Value(LoadedRoot(root))) THEN Get(LoadedRoot(root), section)
    ELSE Absent

\* the instance names the ChipletInst section declares
DeclaredInstances ==
    IF SectionOf("ChipletInst").t = "map" THEN DictKeys(Value(SectionOf("ChipletInst"))) ELSE {}

\* the <<name, node>> entries of the Stack section, in written order
StackEntries == IF SectionOf("Stack").t = "map" THEN Value(SectionOf("Stack")) ELSE <<>>

IsNumber(node) == node.t \in {"int", "float"}

\* a Stack entry with a two-number loc, a number z and an orient
WellFormedStackEntry(node) ==
    /\ node.t = "map"
    /\ {"loc", "z", "orient"} \subseteq DictKeys(Value(node))
    /\ Get(node, "loc").t = "list"
    /\ Len(Value(Get(node, "loc"))) = 2
    /\ \A i \in 1..2 : IsNumber(Value(Get(node, "loc"))[i])
    /\ IsNumber(Get(node, "z"))
    /\ Get(node, "orient").t \in {"str", "null"}

\* the Stack entry k names an undeclared instance and is the first to do so,
\* and the entries written before it are well formed
FirstUnknownStackEntry(k) ==
    /\ k \in 1..Len(StackEntries)
    /\ StackEntries[k][1] \notin DeclaredInstances
    /\ \A j \in 1..(k - 1) :
          /\ StackEntries[j][1] \in DeclaredInstances
          /\ WellFormedStackEntry(StackEntries[j][2])

UnknownInstanceError(name) ==
    Raise("ParserError", <<Lit("Parser Error: "), Lit("DBX Stack instance '"), Named(name),
                           Lit("' not found in ChipletInst")>>)

InstanceNames(d) == IF d = NoData THEN {} ELSE DictKeys(d.chiplet_instances)

\* C3: when the Stack statement runs (every earlier section was accepted) on
\* a Stack section with an entry whose key ChipletInst does not declare
\* (ChipletInst may be absent), the entries before it being well formed, the
\* parse fails with the ParserError that names that instance, which is also
\* logged; the data object never holds an instance that was not declared and
\* no data is returned for a document with such a Stack entry.
C3_UnknownStackInstanceFails ==
    /\ [][ \A k \in 1..Len(StackEntries) :
             (DbxStack /\ FirstUnknownStackEntry(k))
             => /\ result' = UnknownInstanceError(StackEntries[k][1])
                /\ log' = Append(log, result'.msg)
                /\ pc' = "done" ]_vars
    /\ [](call = "dbx" => InstanceNames(data) \subseteq DeclaredInstances)
    /\ []((call = "dbx" /\ result.kind = "return")
            => \A k \in 1..Len(StackEntries) : StackEntries[k][1] \in DeclaredInstances)

\* the Stack section names i1 and then the undeclared g: i1 is placed, g fails
C3_Witness ==
    /\ call = "dbx"
    /\ pc = "done"
    /\ Len(StackEntries) = 2
    /\ StackEntries[1][1] = "i1"
    /\ "i1" \in DeclaredInstances
    /\ result = UnknownInstanceError("g")
    /\ Len(log) = 1

\* the document with its sections written in the order of the specification
Canonical(loaded) ==
    YMap(SelectSeq([i \in 1..5 |->
                       << <<"Header", "Design", "ChipletInst", "Stack", "Connection">>[i],
                          SectionOf(<<"Header", "Design", "ChipletInst", "Stack",
                                      "Connection">>[i]) >>],
                   LAMBDA p : p[2] # Absent))

\* the position of a section in the written document, 0 when absent
WrittenAt(section) ==
    IF section \in DictKeys(Value(LoadedRoot(root))) THEN DictIndex(Value(LoadedRoot(root)), section)
    ELSE 0

\* every instance named in Stack carries the z of its Stack entry
StackApplied(d) ==
    \A k \in 1..Len(StackEntries) :
        /\ StackEntries[k][1] \in DictKeys(d.chiplet_instances)
        /\ Return(DictGet(d.chiplet_instances, StackEntries[k][1]).z)
             = float(Get(StackEntries[k][2], "z"))

\* C4: whatever the order in which the top-level sections are written, a
\* finished DBX parse has an outcome (data or error) of the same document
\* written in the order Header, Design, ChipletInst, Stack, Connection; when
\* it returns data, every Stack key is a declared instance that carries the
\* placement of its Stack entry, also when Stack is written before
\* ChipletInst.
C4_SectionOrderIrrelevant ==
    (call = "dbx" /\ pc = "done")
    => /\ result \in dbx_parse_yaml_content(fs, current_file_path, Canonical(root))
       /\ result.kind = "return" => StackApplied(result.value)

\* Stack is written before ChipletInst and the parse returns data
C4_Witness ==
    /\ call = "dbx"
    /\ pc = "done"
    /\ WrittenAt("Stack") > 0
    /\ WrittenAt("Stack") < WrittenAt("ChipletInst")
    /\ WrittenAt("ChipletInst") < WrittenAt("Design")
    /\ result.kind = "return"
    /\ DictGet(result.value.chiplet_instances, "i1").z = [m |-> 15, e |-> 1]

(***************************************************************************)
(* Properties of DbvParser                                                 *)
(***************************************************************************)
\* the <<name, node>> entries of the ChipletDef section, in written order
ChipletEntries ==
    IF SectionOf("ChipletDef").t = "map" THEN Value(SectionOf("ChipletDef")) ELSE <<>>

HasField(node, key) == node.t = "map" /\ key \in DictKeys(Value(node))

\* the field is a list of exactly n numbers
NumbersOf(node, key, n) ==
    /\ Get(node, key).t = "list"
    /\ Len(Value(Get(node, key))) = n
    /\ \A i \in 1..n : IsNumber(Value(Get(node, key))[i])

\* the field is present and is no list, or a list of another length
MalformedArray(node, key, n) ==
    /\ HasField(node, key)
    /\ Get(node, key).t # "list" \/ Len(Value(Get(node, key))) # n

ArrayFields == <<"design_area", "offset", "seal_ring_width", "scribe_line_remaining_width">>

ArrayLength(key) == IF key \in {"design_area", "offset"} THEN 2 ELSE 4

\* the array fields ArrayFields[1..upto] are absent or well formed
ArraysWellFormed(node, upto) ==
    \A i \in 1..upto :
        HasField(node, ArrayFields[i])
        => NumbersOf(node, ArrayFields[i], ArrayLength(ArrayFields[i]))

\* a path field that is a text, or a list of texts, and globs no missing
\* directory
PathsWellFormed(node, key) ==
    LET texts == IF Get(node, key).t = "list" THEN Value(Get(node, key))
                 ELSE <<Get(node, key)>>
    IN  HasField(node, key)
        => \A i \in 1..Len(texts) :
              /\ texts[i].t = "str"
              /\ \A r \in resolve_paths(fs, current_file_path, Value(texts[i])) :
                    r.kind = "return"

\* a chiplet entry that _parse_chiplet accepts: a mapping with a type, well
\* formed arrays, numeric scalars, regions of texts and coordinates, and
\* external paths
WellFormedChiplet(node) ==
    /\ HasField(node, "type")
    /\ ArraysWellFormed(node, 4)
    /\ \A key \in {"thickness", "shrink"} : HasField(node, key) => IsNumber(Get(node, key))
    /\ HasField(node, "regions")
       => /\ Get(node, "regions").t = "map"
          /\ \A i \in 1..Len(Value(Get(node, "regions"))) :
                LET region == Value(Get(node, "regions"))[i][2]
                IN  /\ region.t = "map"
                    /\ \A key \in {"bmap", "pmap"} :
                          HasField(region, key) => Get(region, key).t = "str"
                    /\ HasField(region, "coords")
                       => /\ Get(region, "coords").t = "list"
                          /\ \A j \in 1..Len(Value(Get(region, "coords"))) :
                                /\ Value(Get(region, "coords"))[j].t = "list"
                                /\ Len(Value(Value(Get(region, "coords"))[j])) = 2
                                /\ \A c \in 1..2 :
                                      IsNumber(Value(Value(Get(region, "coords"))[j])[c])
    /\ HasField(node, "external")
       => /\ Get(node, "external").t = "map"
          /\ \A key \in {"LEF_file", "APR_tech_file", "liberty_file"} :
                PathsWellFormed(Get(node, "external"), key)
          /\ HasField(Get(node, "external"), "DEF_file")
             => Get(Get(node, "external"), "DEF_file").t = "str"

\* the entries written before entry k are accepted
EarlierChipletsWellFormed(k) == \A j \in 1..(k - 1) : WellFormedChiplet(ChipletEntries[j][2])

\* entry k is the first that is a mapping without a `type` key
FirstUntypedChiplet(k) ==
    /\ k \in 1..Len(ChipletEntries)
    /\ ChipletEntries[k][2].t = "map"
    /\ ~HasField(ChipletEntries[k][2], "type")
    /\ EarlierChipletsWellFormed(k)

TypeRequiredError(name) ==
    Raise("ParserError", <<Lit("Parser Error: "), Lit("Chiplet type is required for chiplet "),
                           Named(name)>>)

\* C5: when the ChipletDef statement runs (the Header was accepted) on a
\* section with an entry that is a mapping without a `type` key, the entries
\* before it being well formed, the parse fails with the ParserError "Chiplet
\* type is required for chiplet <name>", which is also logged; and data is
\* returned only when every chiplet entry has a `type` key, each returned
\* ChipletDef carrying the text of its type.
C5_TypeRequired ==
    /\ [][ \A k \in 1..Len(ChipletEntries) :
             (DbvChipletDef /\ FirstUntypedChiplet(k))
             => /\ result' = TypeRequiredError(ChipletEntries[k][1])
                /\ log' = Append(log, result'.msg)
                /\ pc' = "done" ]_vars
    /\ []((call = "dbv" /\ result.kind = "return")
            => /\ DictKeys(result.value.chiplet_defs)
                    = {ChipletEntries[k][1] : k \in 1..Len(ChipletEntries)}
               /\ \A k \in 1..Len(ChipletEntries) :
                     /\ HasField(ChipletEntries[k][2], "type")
                     /\ DictGet(result.value.chiplet_defs, ChipletEntries[k][1]).type
                          = str(Get(ChipletEntries[k][2], "type")))

\* the second of two chiplets has no type: the parse fails naming it
C5_Witness ==
    /\ call = "dbv"
    /\ pc = "done"
    /\ Len(ChipletEntries) = 2
    /\ FirstUntypedChiplet(2)
    /\ HasField(ChipletEntries[2][2], "design_area")
    /\ result = TypeRequiredError("cB")
    /\ Len(log) = 1

\* entry k is accepted up to the array field ArrayFields[a], which is
\* malformed; the entries before k are accepted
FirstMalformedArray(k, a) ==
    /\ k \in 1..Len(ChipletEntries)
    /\ HasField(ChipletEntries[k][2], "type")
    /\ ArraysWellFormed(ChipletEntries[k][2], a - 1)
    /\ MalformedArray(ChipletEntries[k][2], ArrayFields[a], ArrayLength(ArrayFields[a]))
    /\ EarlierChipletsWellFormed(k)

ArrayError(key, name) ==
    Raise("ParserError",
          <<Lit("Parser Error: "),
            Lit(CASE key = "design_area" -> "design_area must have 2 values for chiplet "
                  [] key = "seal_ring_width" -> "seal_ring_width must have 4 values for chiplet "
                  [] key = "scribe_line_remaining_width" ->
                        "scribe_line_remaining_width must have 4 values for chiplet "),
            Named(name)>>)

\* the number the decoder gave, as the float the field holds
Number(node) == IF node.t = "int" THEN [m |-> node.int, e |-> 0] ELSE node.float

\* the fields of the ChipletDef c equal the elements of the array, in order
FieldsSet(c, fields, node, key) ==
    /\ NumbersOf(node, key, Len(fields))
    /\ \A i \in 1..Len(fields) : c[fields[i]] = Number(Value(Get(node, key))[i])

\* C6: returned data holds, for every chiplet with a design_area, a list of
\* exactly two values that are design_width and design_height in order, and
\* for seal_ring_width / scribe_line_remaining_width a list of exactly four
\* values that are left, bottom, right, top in order; and when the ChipletDef
\* statement runs on an entry whose design_area, seal_ring_width or
\* scribe_line_remaining_width is no list or has another element count
\* (what precedes it being well formed), the parse fails with the
\* ParserError "<field> must have N values for chiplet <name>".
C6_FixedLengthArrays ==
    /\ []((call = "dbv" /\ result.kind = "return")
            => \A k \in 1..Len(ChipletEntries) :
                  LET node == ChipletEntries[k][2]
                      c == DictGet(result.value.chiplet_defs, ChipletEntries[k][1])
                  IN  /\ HasField(node, "design_area")
                         => FieldsSet(c, <<"design_width", "design_height">>,
                                      node, "design_area")
                      /\ HasField(node, "seal_ring_width")
                         => FieldsSet(c, <<"seal_ring_left", "seal_ring_bottom",
                                           "seal_ring_right", "seal_ring_top">>,
                                      node, "seal_ring_width")
                      /\ HasField(node, "scribe_line_remaining_width")
                         => FieldsSet(c, <<"scribe_line_left", "scribe_line_bottom",
                                           "scribe_line_right", "scribe_line_top">>,
                                      node, "scribe_line_remaining_width"))
    /\ [][ \A k \in 1..Len(ChipletEntries) : \A a \in {1, 3, 4} :
             (DbvChipletDef /\ FirstMalformedArray(k, a))
             => /\ result' = ArrayError(ArrayFields[a], ChipletEntries[k][1])
                /\ log' = Append(log, result'.msg)
                /\ pc' = "done" ]_vars

\* a chiplet with all three arrays is returned with its eight fields set
C6_Witness ==
    /\ call = "dbv"
    /\ pc = "done"
    /\ result.kind = "return"
    /\ Len(ChipletEntries) = 1
    /\ HasField(ChipletEntries[1][2], "design_area")
    /\ Get(ChipletEntries[1][2], "design_area") = YList(<<YFloat(100, 0), YFloat(2005, 1)>>)
    /\ HasField(ChipletEntries[1][2], "seal_ring_width")
    /\ HasField(ChipletEntries[1][2], "scribe_line_remaining_width")
    /\ DictGet(result.value.chiplet_defs, "cA").design_width = [m |-> 100, e |-> 0]
    /\ DictGet(result.value.chiplet_defs, "cA").design_height = [m |-> 2005, e |-> 1]
    /\ DictGet(result.value.chiplet_defs, "cA").seal_ring_top = [m |-> 4, e |-> 0]
    /\ DictGet(result.value.chiplet_defs, "cA").scribe_line_left = [m |-> 5, e |-> 1]

(***************************************************************************)
(* Properties of BmapParser                                                *)
(***************************************************************************)
\* the lines of the file, numbered from 1
FileLines == splitlines(content)

\* a line that is not skipped: its first non-whitespace character exists
\* and is not '#'
Remaining(line) ==
    \E i \in 1..Len(line) :
        /\ ~IsSpace(line[i])
        /\ line[i] # "#"
        /\ \A j \in 1..(i - 1) : IsSpace(line[j])

Numeric(token) == float_of_text(token).kind = "return"

\* six whitespace-separated tokens, the third and the fourth numeric
WellFormedLine(line) ==
    /\ Len(split(line)) = 6
    /\ Numeric(split(line)[3])
    /\ Numeric(split(line)[4])

\* (token1, token2, float(token3), float(token4), token5, token6)
EntryOf(line) ==
    [bump_inst_name |-> split(line)[1], bump_cell_type |-> split(line)[2],
     x |-> float_of_text(split(line)[3]).value, y |-> float_of_text(split(line)[4]).value,
     port_name |-> split(line)[5], net_name |-> split(line)[6]]

\* one entry per remaining line among the first n lines, in file order
EntriesUpTo(n) ==
    LET remaining == SelectSeq(SubSeq(FileLines, 1, n), Remaining)
    IN  [k \in 1..Len(remaining) |-> EntryOf(remaining[k])]

\* line n is the first remaining line that is not well formed
FirstIllFormed(n) ==
    /\ n \in 1..Len(FileLines)
    /\ Remaining(FileLines[n])
    /\ ~WellFormedLine(FileLines[n])
    /\ \A k \in 1..(n - 1) : Remaining(FileLines[k]) => WellFormedLine(FileLines[k])

\* the message cites the file and line n
CitesFileAndLine(msg, n) ==
    /\ Len(msg) > 5
    /\ SubSeq(msg, 1, 5) =
         <<Lit("Bump Map Parser Error: file "), Text(bmap_file_text(current_file_path)),
           Lit(" Line "), Text(IntText(n)), Lit(" - ")>>

\* C10: blank lines and lines whose first non-whitespace character is '#'
\* are skipped; when every remaining line has six tokens with numeric third
\* and fourth tokens the result holds one entry per remaining line, in file
\* order, with the fields (token1, token2, float(token3), float(token4),
\* token5, token6); otherwise the parse fails with a ValueError that cites
\* the file and the 1-based number, counting skipped lines, of the first
\* remaining line that is not well formed.
C10_BumpMapLines ==
    /\ call = "bmap" /\ pc = "lines" => data.entries = EntriesUpTo(line_number)
    /\ call = "bmap" /\ pc = "done" =>
         IF \A n \in 1..Len(FileLines) :
                Remaining(FileLines[n]) => WellFormedLine(FileLines[n])
         THEN result = Return([entries |-> EntriesUpTo(Len(FileLines))])
         ELSE /\ result.kind = "raise"
              /\ result.exc = "ValueError"
              /\ \E n \in 1..Len(FileLines) :
                    FirstIllFormed(n) /\ CitesFileAndLine(result.msg, n)
              /\ log = <<result.msg>>

\* a comment line, then an entry, then a line that fails as line 3
C10_Witness ==
    /\ call = "bmap"
    /\ pc = "done"
    /\ result.kind = "raise"
    /\ FirstIllFormed(3)
    /\ ~Remaining(FileLines[1])
    /\ FileLines[1] # <<>>
    /\ Remaining(FileLines[2])
    /\ data.entries = <<EntryOf(FileLines[2])>>
    /\ CitesFileAndLine(result.msg, 3)

(***************************************************************************)
(* Properties of the three parsers together                                *)
(***************************************************************************)
\* the <<name, node>> entries of a section that is a mapping
EntriesOf(section) == IF SectionOf(section).t = "map" THEN Value(SectionOf(section)) ELSE <<>>

Names(entries) == { entries[k][1] : k \in 1..Len(entries) }

\* the entry on its own is rejected: a chiplet, an instance, a stack entry,
\* a connection
ChipletFails(entry) ==
    \A r \in parse_chiplet(fs, current_file_path, ChipletDef0(entry[1]), entry[2]) :
        r.kind = "raise"

InstanceFails(entry) ==
    parse_chiplet_inst(fs, current_file_path, ChipletInst0(entry[1]), entry[2]).kind = "raise"

StackEntryFails(entry) ==
    \/ entry[1] \notin DeclaredInstances
    \/ parse_stack_instance(ChipletInst0(entry[1]), entry[2]).kind = "raise"

ConnectionFails(entry) == parse_connection(Connection0(entry[1]), entry[2]).kind = "raise"

\* some entry of the file being parsed is malformed
SomeEntryFails ==
    CASE call = "dbv" -> \E k \in 1..Len(ChipletEntries) : ChipletFails(ChipletEntries[k])
      [] call = "dbx" ->
            \/ \E k \in 1..Len(EntriesOf("ChipletInst")) :
                  InstanceFails(EntriesOf("ChipletInst")[k])
            \/ \E k \in 1..Len(StackEntries) : StackEntryFails(StackEntries[k])
            \/ \E k \in 1..Len(EntriesOf("Connection")) :
                  ConnectionFails(EntriesOf("Connection")[k])
      [] call = "bmap" ->
            \E n \in 1..Len(FileLines) :
                Remaining(FileLines[n]) /\ ~WellFormedLine(FileLines[n])

\* the data object holds every entry of the file
EveryEntryDelivered(d) ==
    CASE call = "dbv" -> DictKeys(d.chiplet_defs) = Names(ChipletEntries)
      [] call = "dbx" ->
            /\ DictKeys(d.chiplet_instances) = Names(EntriesOf("ChipletInst"))
            /\ DictKeys(d.connections) = Names(EntriesOf("Connection"))
      [] call = "bmap" -> d.entries = EntriesUpTo(Len(FileLines))

\* C11: no parser has a partial-result mode: a call that raises ends there
\* and hands the caller an exception and no data object, whatever was parsed
\* before the failure; a call returns data only for a file none of whose
\* chiplets, instances, stack entries, connections or bump lines is
\* malformed, and the data then holds every entry of the file.
C11_NoPartialResult ==
    /\ [](result.kind = "raise" =>
            /\ pc = "done"
            /\ DOMAIN result = {"kind", "exc", "msg"})
    /\ [](result.kind = "return" =>
            /\ pc = "done"
            /\ result.value = data
            /\ ~SomeEntryFails
            /\ EveryEntryDelivered(result.value))
    /\ [](pc = "done" => result.kind \in {"raise", "return"})
    /\ [][result.kind = "none"]_vars

\* the third bump line is malformed after two valid ones: the call raised
\* although two entries had been built
C11_Witness ==
    /\ call = "bmap"
    /\ pc = "done"
    /\ result.kind = "raise"
    /\ Len(data.entries) = 2
    /\ FirstIllFormed(3)

(***************************************************************************)
(* Properties of DbxParser: required keys and stored references            *)
(***************************************************************************)
ConnectionEntries == EntriesOf("Connection")

\* a mapping without `top` or without `bot`
LacksEndpoint(node) ==
    node.t = "map" /\ ~({"top", "bot"} \subseteq DictKeys(Value(node)))

\* a mapping with `top` and `bot`, each a text or null, and a numeric
\* thickness if any
CompleteConnection(node) ==
    /\ node.t = "map"
    /\ {"top", "bot"} \subseteq DictKeys(Value(node))
    /\ Get(node, "top").t \in {"str", "null"}
    /\ Get(node, "bot").t \in {"str", "null"}
    /\ "thickness" \in DictKeys(Value(node)) => IsNumber(Get(node, "thickness"))

\* entry k is the first that lacks an endpoint key
FirstLackingEndpoint(k) ==
    /\ k \in 1..Len(ConnectionEntries)
    /\ LacksEndpoint(ConnectionEntries[k][2])
    /\ \A j \in 1..(k - 1) : CompleteConnection(ConnectionEntries[j][2])

\* the error for the first key the entry lacks
EndpointRequiredError(entry) ==
    IF "top" \notin DictKeys(Value(entry[2]))
    THEN log_error(<<Lit("DBX Connection top is required for connection "), Named(entry[1])>>)
    ELSE log_error(<<Lit("DBX Connection bot is required for connection "), Named(entry[1])>>)

\* what is stored for an endpoint: the null sentinel for null, else the text
StoredEndpoint(node, key) ==
    IF Get(node, key).t = "null" THEN None ELSE Value(Get(node, key))

\* the connections hold the endpoints of every entry as written
EndpointsStored(connections) ==
    /\ DictKeys(connections) = Names(ConnectionEntries)
    /\ \A k \in 1..Len(ConnectionEntries) :
          LET c == DictGet(connections, ConnectionEntries[k][1])
              node == ConnectionEntries[k][2]
          IN  /\ c.top = StoredEndpoint(node, "top")
              /\ c.bot = StoredEndpoint(node, "bot")
              /\ Get(node, "bot").t = "null" => c.bot = None /\ c.bot # <<"N", "o", "n", "e">>
              /\ Get(node, "top").t = "null" => c.top = None /\ c.top # <<"N", "o", "n", "e">>

\* C12: when the Connection statement runs on a section whose first entry
\* without a `top` or without a `bot` key is k (the entries before it having
\* both), the parse fails with the ParserError that names connection k; a
\* section whose entries all have both keys is accepted, null values
\* included, and a null `top` or `bot` is stored as None itself, not as the
\* text "None".
C12_ConnectionEndpoints ==
    /\ [][ \A k \in 1..Len(ConnectionEntries) :
             (DbxConnection /\ FirstLackingEndpoint(k))
             => /\ result' = EndpointRequiredError(ConnectionEntries[k])
                /\ log' = Append(log, result'.msg)
                /\ pc' = "done" ]_vars
    /\ [][ (DbxConnection /\ \A k \in 1..Len(ConnectionEntries) :
                                 CompleteConnection(ConnectionEntries[k][2]))
           => /\ pc' = "return"
              /\ EndpointsStored(data'.connections) ]_vars
    /\ []((call = "dbx" /\ result.kind = "return")
            => /\ \A k \in 1..Len(ConnectionEntries) :
                     ~LacksEndpoint(ConnectionEntries[k][2])
               /\ EndpointsStored(result.value.connections))

\* a connection with a region as top and null as bot was returned with the
\* sentinel as bot
C12_Witness ==
    /\ call = "dbx"
    /\ result.kind = "return"
    /\ Len(ConnectionEntries) = 1
    /\ Get(ConnectionEntries[1][2], "top").t = "str"
    /\ Get(ConnectionEntries[1][2], "bot").t = "null"
    /\ DictGet(result.value.connections, "c1").bot = None
    /\ DictGet(result.value.connections, "c1").top = Value(Get(ConnectionEntries[1][2], "top"))

InstanceEntries == EntriesOf("ChipletInst")

\* a mapping with a text or null `reference` and no `external`
CompleteInstance(node) ==
    /\ node.t = "map"
    /\ "reference" \in DictKeys(Value(node))
    /\ Get(node, "reference").t \in {"str", "null"}
    /\ "external" \notin DictKeys(Value(node))

\* entry k is the first mapping without `reference`
FirstLackingReference(k) ==
    /\ k \in 1..Len(InstanceEntries)
    /\ InstanceEntries[k][2].t = "map"
    /\ "reference" \notin DictKeys(Value(InstanceEntries[k][2]))
    /\ \A j \in 1..(k - 1) : CompleteInstance(InstanceEntries[j][2])

\* the first of loc, z, orient that the Stack entry lacks, what it gives
\* before that key being well formed; "" when there is none
MissingStackKey(node) ==
    IF node.t # "map" THEN ""
    ELSE IF "loc" \notin DictKeys(Value(node)) THEN "loc"
    ELSE IF ~NumbersOf(node, "loc", 2) THEN ""
    ELSE IF "z" \notin DictKeys(Value(node)) THEN "z"
    ELSE IF ~IsNumber(Get(node, "z")) THEN ""
    ELSE IF "orient" \notin DictKeys(Value(node)) THEN "orient"
    ELSE ""

\* entry k of Stack is the first that lacks a key; it names a declared
\* instance, as do the well-formed entries before it
FirstLackingStackKey(k) ==
    /\ k \in 1..Len(StackEntries)
    /\ StackEntries[k][1] \in DeclaredInstances
    /\ MissingStackKey(StackEntries[k][2]) # ""
    /\ \A j \in 1..(k - 1) :
          /\ StackEntries[j][1] \in DeclaredInstances
          /\ WellFormedStackEntry(StackEntries[j][2])

StackKeyError(entry) ==
    log_error(<<Lit(CASE MissingStackKey(entry[2]) = "loc" ->
                           "DBX Stack location is required for instance "
                      [] MissingStackKey(entry[2]) = "z" ->
                           "DBX Stack z is required for instance "
                      [] MissingStackKey(entry[2]) = "orient" ->
                           "DBX Stack orientation is required for instance "),
                Named(entry[1])>>)

\* the instance carries the loc, z and orient of the Stack entry
CarriesStackEntry(instance, node) ==
    /\ {"loc", "z", "orient"} \subseteq DictKeys(Value(node))
    /\ NumbersOf(node, "loc", 2)
    /\ instance.loc = [x |-> Number(Value(Get(node, "loc"))[1]),
                       y |-> Number(Value(Get(node, "loc"))[2])]
    /\ instance.z = Number(Get(node, "z"))
    /\ instance.orient = IF Get(node, "orient").t = "null" THEN <<>>
                         ELSE Value(Get(node, "orient"))

\* C13: in a DBX document `name` of Design, `reference` of every ChipletInst
\* entry and `loc`, `z`, `orient` of every Stack entry are mandatory: when
\* the statement of the section runs and the key is absent (first such
\* entry, what precedes it well formed) the parse fails with the ParserError
\* of that construct, naming the instance for ChipletInst and Stack; when
\* data is returned every instance named in Stack carries the loc, z and
\* orient of its Stack entry.
C13_MandatoryKeys ==
    /\ [][ (DbxDesign /\ SectionOf("Design").t = "map"
                      /\ ~HasField(SectionOf("Design"), "name"))
           => /\ result' = log_error(<<Lit("DBX Design name is required")>>)
              /\ log' = Append(log, result'.msg)
              /\ pc' = "done" ]_vars
    /\ [][ \A k \in 1..Len(InstanceEntries) :
             (DbxChipletInst /\ FirstLackingReference(k))
             => /\ result' = log_error(<<Lit("DBX ChipletInst reference is required for instance "),
                                         Named(InstanceEntries[k][1])>>)
                /\ log' = Append(log, result'.msg)
                /\ pc' = "done" ]_vars
    /\ [][ \A k \in 1..Len(StackEntries) :
             (DbxStack /\ FirstLackingStackKey(k))
             => /\ result' = StackKeyError(StackEntries[k])
                /\ log' = Append(log, result'.msg)
                /\ pc' = "done" ]_vars
    /\ []((call = "dbx" /\ result.kind = "return")
            => /\ SectionOf("Design") # Absent => HasField(SectionOf("Design"), "name")
               /\ \A k \in 1..Len(InstanceEntries) :
                     HasField(InstanceEntries[k][2], "reference")
               /\ \A k \in 1..Len(StackEntries) :
                     /\ StackEntries[k][1] \in DictKeys(result.value.chiplet_instances)
                     /\ CarriesStackEntry(DictGet(result.value.chiplet_instances,
                                                  StackEntries[k][1]),
                                          StackEntries[k][2]))

\* the Stack entry of i2 lacks `orient` after a complete entry of i1
C13_Witness ==
    /\ call = "dbx"
    /\ pc = "done"
    /\ FirstLackingStackKey(2)
    /\ MissingStackKey(StackEntries[2][2]) = "orient"
    /\ result = StackKeyError(StackEntries[2])
    /\ log = <<result.msg>>

\* what is stored for `reference`: the text as written, "" for null
StoredReference(node) ==
    IF Get(node, "reference").t = "null" THEN <<>> ELSE Value(Get(node, "reference"))

\* the instances hold the reference of every entry as written
ReferencesStored(instances) ==
    /\ DictKeys(instances) = Names(InstanceEntries)
    /\ \A k \in 1..Len(InstanceEntries) :
          DictGet(instances, InstanceEntries[k][1]).reference
            = StoredReference(InstanceEntries[k][2])

\* the names a consumer could resolve: the chiplet of the library, the
\* regions of the declared instances
ResolvableReferences == { <<"c", "A">> }

ResolvableEndpoints ==
    { <<"i", "1", ".", "r", "e", "g", "i", "o", "n", "s", ".", "r", "1">> }

\* C14: names other than Stack keys are not checked when a DBX is parsed:
\* a ChipletInst section whose entries all give a `reference` is accepted
\* and a Connection section whose entries all give `top` and `bot` is
\* accepted, whatever the texts name (no chiplet, an undeclared instance or
\* region, a text of another form), and the texts are stored as written.
C14_ReferencesNotValidated ==
    /\ [][ (DbxChipletInst /\ InstanceEntries # <<>>
                           /\ \A k \in 1..Len(InstanceEntries) :
                                 CompleteInstance(InstanceEntries[k][2]))
           => /\ pc' = "Stack"
              /\ result' = NoResult
              /\ ReferencesStored(data'.chiplet_instances) ]_vars
    /\ [][ (DbxConnection /\ ConnectionEntries # <<>>
                          /\ \A k \in 1..Len(ConnectionEntries) :
                                CompleteConnection(ConnectionEntries[k][2]))
           => /\ pc' = "return"
              /\ result' = NoResult
              /\ \A k \in 1..Len(ConnectionEntries) :
                    /\ DictGet(data'.connections, ConnectionEntries[k][1]).top
                         = StoredEndpoint(ConnectionEntries[k][2], "top")
                    /\ DictGet(data'.connections, ConnectionEntries[k][1]).bot
                         = StoredEndpoint(ConnectionEntries[k][2], "bot") ]_vars
    /\ []((call = "dbx" /\ result.kind = "return")
            => ReferencesStored(result.value.chiplet_instances))

\* data was returned with a reference to no chiplet, a top in an undeclared
\* instance and a bot of another form
C14_Witness ==
    /\ call = "dbx"
    /\ result.kind = "return"
    /\ DictGet(result.value.chiplet_instances, "i1").reference = <<"z", "z">>
    /\ DictGet(result.value.chiplet_instances, "i1").reference \notin ResolvableReferences
    /\ DictGet(result.value.connections, "c1").top
         = <<"g", ".", "r", "e", "g", "i", "o", "n", "s", ".", "q">>
    /\ DictGet(result.value.connections, "c1").top \notin ResolvableEndpoints
    /\ DictGet(result.value.connections, "c1").bot = <<"z", "z">>

(***************************************************************************)
(* Properties of ThreeDBloxParser.parse                                    *)
(***************************************************************************)
SameLetter(a, b) ==
    a = b \/ \E k \in 1..26 : {a, b} = {Uppercase[k], Lowercase[k]}

EqualsIgnoringCase(s, t) ==
    Len(s) = Len(t) /\ \A i \in 1..Len(s) : SameLetter(s[i], t[i])

\* the parser whose extension the path carries in any letter case
RoutedTo(fname) ==
    IF EqualsIgnoringCase(PathSuffix(PathOf(fname)), <<".", "3", "d", "b", "v">>) THEN "dbv"
    ELSE IF EqualsIgnoringCase(PathSuffix(PathOf(fname)), <<".", "3", "d", "b", "x">>)
    THEN "dbx"
    ELSE IF EqualsIgnoringCase(PathSuffix(PathOf(fname)), <<".", "b", "m", "a", "p">>)
    THEN "bmap"
    ELSE "none"

\* the fields of DbvData, DbxData and BumpMapData
ResultType(parser) ==
    CASE parser = "dbv" -> {"header", "chiplet_defs"}
      [] parser = "dbx" -> {"header", "design", "chiplet_instances", "connections"}
      [] parser = "bmap" -> {"entries"}

NamesAllowedExtensions(msg) ==
    \E i \in 1..Len(msg) : msg[i] = Lit("Expected .3dbv, .3dbx, or .bmap")

NoParserInvoked ==
    /\ call = "parse"
    /\ calls = 0
    /\ current_file_path = None
    /\ data = NoData
    /\ log = <<>>

\* C15: parse hands the path to the parser of its extension, compared without
\* regard to letter case, and what it returns is that parser's data; a path
\* with another extension or none raises an error that names the three
\* extensions, and no parser has run
C15_Dispatch ==
    /\ [][Parse =>
            IF RoutedTo(filename_arg) = "none"
            THEN /\ pc' = "done"
                 /\ result'.kind = "raise"
                 /\ NamesAllowedExtensions(result'.msg)
                 /\ NoParserInvoked'
            ELSE /\ call' = RoutedTo(filename_arg)
                 /\ pc' = "parse_file"
                 /\ PathOf(filename_arg') = PathOf(filename_arg)]_vars
    /\ [](pc = "done" /\ result.kind = "return"
            => /\ call = RoutedTo(filename_arg)
               /\ DOMAIN result.value = ResultType(call))
    /\ [](call = "parse" => NoParserInvoked)

C15_Witness ==
    /\ pc = "done"
    /\ call = "bmap"
    /\ PathSuffix(PathOf(filename_arg)) = <<".", "B", "M", "A", "P">>
    /\ result.kind = "return"
    /\ result.value.entries # <<>>

(***************************************************************************)
(* Properties of the kind of error a parser raises                         *)
(***************************************************************************)
\* C16: whatever makes a parser reject the content of a file, the exception
\* that leaves the call is a ParserError.
C16_SingleErrorKind ==
    (pc = "done" /\ result.kind = "raise") => result.exc = "ParserError"

(***************************************************************************)
(* Properties of a file that cannot be opened                              *)
(***************************************************************************)
Unopenable == ~PathIsFile(fs, PathOf(filename_arg))

CannotOpen(msg) ==
    \E i \in 1..Len(msg) :
        msg[i] \in { Lit("Cannot open file: "),
                     Lit("Bump Map Parser Error: Cannot open file: ") }

ParseFileEnded == pc = "done" /\ call \in {"dbv", "dbx", "bmap"}

\* The statement of C17 as written: a file that cannot be opened ends the
\* call of each parser with an error that is no ParserError.
C17_DistinctIOFailure ==
    (ParseFileEnded /\ Unopenable)
        => (result.kind = "raise" /\ result.exc # "ParserError")

\* C17: BmapParser raises IOError (OSError) for a file that cannot be opened,
\* and ValueError for a malformed line; DbvParser and DbxParser raise
\* ParserError for both, and only the message "Cannot open file: ..." tells
\* the unopened file from the invalid one.  Each one logs the failure.
C17_OpenFailureKinds ==
    /\ [][ParseFileOpen /\ Unopenable =>
            /\ pc' = "done"
            /\ result'.kind = "raise"
            /\ result'.exc = IF call = "bmap" THEN "OSError" ELSE "ParserError"
            /\ CannotOpen(result'.msg)
            /\ log' = Append(log, result'.msg)]_vars
    /\ [](ParseFileEnded /\ result.kind = "raise" /\ call = "bmap"
            => /\ result.exc \in {"OSError", "ValueError", "UnicodeDecodeError"}
               /\ result.exc = "OSError" <=> Unopenable)
    /\ [](ParseFileEnded /\ result.kind = "raise" /\ call \in {"dbv", "dbx"}
            => /\ result.exc \in {"ParserError", "UnicodeDecodeError"}
               /\ CannotOpen(result.msg) <=> Unopenable)

C17_Witness ==
    /\ ParseFileEnded
    /\ call = "dbx"
    /\ Unopenable
    /\ result.kind = "raise"
    /\ result.exc = "ParserError"
    /\ Len(log) = 1

\* the same parser rejects a file that it did open with the same kind
C17_InvalidFileSameKind ==
    /\ ParseFileEnded
    /\ call = "dbx"
    /\ ~Unopenable
    /\ result.kind = "raise"
    /\ result.exc = "ParserError"

(***************************************************************************)
(* Properties of the error messages                                        *)
(***************************************************************************)
\* the message holds the path of the file being parsed
MentionsFile(msg) ==
    \E i \in 1..Len(msg) :
        /\ "text" \in DOMAIN msg[i]
        /\ contains(msg[i].text, bmap_file_text(current_file_path))

FirstFailingChiplet ==
    EntriesOf("ChipletDef")[CHOOSE k \in 1..Len(EntriesOf("ChipletDef")) :
                               /\ ChipletFails(EntriesOf("ChipletDef")[k])
                               /\ \A j \in 1..(k - 1) :
                                     ~ChipletFails(EntriesOf("ChipletDef")[j])]

\* C18: the message of every error that ends a parse holds the path of the
\* file; it holds the name of the chiplet whose entry is rejected; for a bump
\* map it holds the number of the rejected line.
C18_ErrorsLocateTheProblem ==
    (pc = "done" /\ result.kind = "raise") =>
        /\ MentionsFile(result.msg)
        /\ call = "bmap" => CitesFileAndLine(result.msg, line_number)
        /\ ( /\ call = "dbv"
             /\ SectionOf("Header") = Absent
             /\ \E k \in 1..Len(EntriesOf("ChipletDef")) :
                   ChipletFails(EntriesOf("ChipletDef")[k]) )
           => \E i \in 1..Len(result.msg) : result.msg[i] = Named(FirstFailingChiplet[1])

(***************************************************************************)
(* Properties of repeated parse_file calls on one parser                   *)
(***************************************************************************)
\* C19: whatever calls the parser made before, and whether they returned or
\* raised, a parse_file call ends as the call of a new parser on the same file
\* would: parse_defines starts from an empty table, and the file of the
\* running call is the one references are resolved against.
C19_CallsIndependent ==
    /\ [](pc = "done" => result \in parse_file(call, fs, filename_arg))
    /\ [][ParseDefinesEnter => defines' = <<>>]_vars
    /\ [](pc \notin {"parse_file", "done"}
            => current_file_path = PathStr(PathOf(filename_arg)))

\* the second call is on e.3dbx, which includes A, after the call on g.3dbx
\* that bound A and then failed
C19_Witness ==
    /\ pc = "done"
    /\ calls = 2
    /\ filename_arg = <<"/", "a", "/", "e", ".", "3", "d", "b", "x">>
    /\ result.kind = "return"
    /\ result.value.header.includes = << <<"/", "a", "/", "A">> >>
    /\ Len(log) = 1
    /\ ~CannotOpen(log[1])

(***************************************************************************)
(* Properties of two concurrent calls                                      *)
(***************************************************************************)
AloneOutcome(thread) ==
    thread.pc = "done" => thread.result \in parse_file(thread.call, fs, thread.filename_arg)

\* C20: with a parser of its own for each of two concurrent calls, whatever
\* the order in which the threads take their steps, each call ends with an
\* outcome of the same call made alone.
C20_ThreadsIndependent == AloneOutcome(Running) /\ AloneOutcome(other)

\* both calls have ended: thread 1 read d.3dbx, which binds A, and thread 2
\* read e.3dbx, whose include A is kept as written
C20_Witness ==
    /\ running = 1
    /\ pc = "done"
    /\ other.pc = "done"
    /\ filename_arg = <<"/", "a", "/", "d", ".", "3", "d", "b", "x">>
    /\ other.filename_arg = <<"/", "a", "/", "e", ".", "3", "d", "b", "x">>
    /\ other.call = "dbx"
    /\ other.result.kind = "return"
    /\ other.result.value.header.includes = << <<"/", "a", "/", "A">> >>
    /\ result.kind = "return"

(***************************************************************************)
(* Properties of the directive lines of parse_defines                      *)
(***************************************************************************)
\* the directive that the loop reads next, and what follows "#!define" on it
NextDirective == lines[line_number + 1]

DirectiveRest == SubSeq(NextDirective, Len(DefinePrefix) + 1, Len(NextDirective))

DirectiveTokens == split(DirectiveRest)

\* what follows the first token of the directive, without the whitespace
\* around it
AfterFirstToken ==
    strip(SubSeq(strip(DirectiveRest), Len(DirectiveTokens[1]) + 1,
                 Len(strip(DirectiveRest))))

\* The statement of C21 as written: a directive that has not exactly two
\* tokens binds nothing, changes no binding and adds nothing to the output.
C21_MalformedIgnored ==
    [][ParseDefinesDirective /\ Len(DirectiveTokens) # 2
          => defines' = defines /\ processed_lines' = processed_lines]_vars

\* C21: parse_defines returns on every input.  No directive line reaches the
\* output.  A directive with fewer than two tokens leaves the table as it
\* is; one with two or more binds its first token to all that follows it on
\* the line, inner spaces kept, so `#!define A B c` binds A to "B c".
C21_ShortDirectiveIgnored ==
    /\ [](pc = "done" => result.kind = "return")
    /\ [][ParseDefinesDirective =>
            /\ processed_lines' = processed_lines
            /\ IF Len(DirectiveTokens) < 2 THEN defines' = defines
               ELSE defines' = DictSet(defines, DirectiveTokens[1], AfterFirstToken)]_vars

\* a directive of one token was read while A was bound, then one of three
C21_Witness ==
    /\ pc = "for_line"
    /\ line_number = 3
    /\ lines[2] = DefinePrefix \o <<" ", "A">>
    /\ lines[3] = DefinePrefix \o <<" ", "A", " ", "B", " ", "c">>
    /\ defines = << <<(<<"A">>), (<<"B", " ", "c">>)>> >>
    /\ lines[1] = DefinePrefix \o <<" ", "A", " ", "B">>

(***************************************************************************)
(* Properties of DbvParser._parse_external                                 *)
(***************************************************************************)
\* the node of the first chiplet, its external section and what was parsed
FirstChipletNode == EntriesOf("ChipletDef")[1][2]

ExternalNode == Get(FirstChipletNode, "external")

ParsedExternal == result.value.chiplet_defs[1][2].external

\* a scalar stands for the list that holds it
AsList(node) == IF node.t = "list" THEN Value(node) ELSE <<node>>

\* the lists resolve_paths may return for one element
Expansions(node) ==
    { r.value : r \in { e \in resolve_paths(fs, current_file_path, str(node)) :
                          e.kind = "return" } }

\* the in-order concatenations of the expansions of the elements
RECURSIVE Concatenations(_)
Concatenations(values) ==
    IF values = <<>> THEN { <<>> }
    ELSE { first \o rest : first \in Expansions(values[1]),
                           rest \in Concatenations(Tail(values)) }

FileListOf(key) ==
    IF HasField(ExternalNode, key) THEN Concatenations(AsList(Get(ExternalNode, key)))
    ELSE { <<>> }

ExternalParsed ==
    /\ pc = "done"
    /\ result.kind = "return"
    /\ EntriesOf("ChipletDef") # <<>>
    /\ HasField(FirstChipletNode, "external")

\* C22: lef_files, tech_lef_files and lib_files are, for a list, the
\* concatenation in order of resolve_paths of its elements, and for a scalar
\* what the one-element list of it gives; def_file is the text of
\* resolve_path of DEF_file, a wildcard in it kept as written.
C22_ExternalLists ==
    ExternalParsed =>
        /\ ParsedExternal.lef_files \in FileListOf("LEF_file")
        /\ ParsedExternal.tech_lef_files \in FileListOf("APR_tech_file")
        /\ ParsedExternal.lib_files \in FileListOf("liberty_file")
        /\ ParsedExternal.def_file =
              IF HasField(ExternalNode, "DEF_file")
              THEN PathStr(resolve_path(fs, current_file_path,
                                        Value(Get(ExternalNode, "DEF_file"))))
              ELSE <<>>

C22_Witness ==
    /\ ExternalParsed
    /\ \A key \in {"LEF_file", "APR_tech_file", "liberty_file", "DEF_file"} :
          HasField(ExternalNode, key)
    /\ Get(ExternalNode, "LEF_file") = YStr(<<"l", "/", "*", ".", "l">>)
    /\ Get(ExternalNode, "APR_tech_file") = YList(<<YStr(<<"l", "/", "*", ".", "l">>)>>)
    /\ Get(ExternalNode, "liberty_file") =
          YList(<<YStr(<<"l", "/", "b", ".", "l">>), YStr(<<"l", "/", "*", ".", "l">>)>>)
    /\ Get(ExternalNode, "DEF_file") = YStr(<<"l", "/", "*", ".", "l">>)
    /\ Len(ParsedExternal.lef_files) = 2
    /\ Len(ParsedExternal.tech_lef_files) = 2
    /\ Len(ParsedExternal.lib_files) = 3
    /\ ParsedExternal.lib_files[1] = <<"/", "a", "/", "l", "/", "b", ".", "l">>
    /\ ParsedExternal.def_file = <<"/", "a", "/", "l", "/", "*", ".", "l">>

(***************************************************************************)
(* Properties of parse_header                                              *)
(***************************************************************************)
HeaderParsed == pc = "done" /\ result.kind = "return"

IncludeList ==
    IF HasField(SectionOf("Header"), "include")
          /\ Get(SectionOf("Header"), "include").t = "list"
    THEN Value(Get(SectionOf("Header"), "include"))
    ELSE <<>>

\* an entry that the loop passes over: null, or a value whose text is empty
EmptyEntry(node) == node = YNull \/ str(node) = <<>>

\* The statement of C23 as written: the includes returned are resolve_paths
\* of every entry of the list, concatenated in order.
C23_EveryEntryResolved ==
    HeaderParsed /\ SectionOf("Header") # Absent =>
        result.value.header.includes \in Concatenations(IncludeList)

\* C23: the includes returned are resolve_paths of the entries of the
\* include list that are neither null nor empty, concatenated in order; none
\* of them holds a wildcard; an include that is no list gives none; without
\* a Header section the header returned has empty version, unit and includes.
C23_IncludesResolved ==
    HeaderParsed =>
        /\ result.value.header.includes
              \in Concatenations(SelectSeq(IncludeList, LAMBDA e : ~EmptyEntry(e)))
        /\ \A i \in 1..Len(result.value.header.includes) :
              ~HasStar(result.value.header.includes[i])
        /\ SectionOf("Header") = Absent =>
              /\ result.value.header.version = <<>>
              /\ result.value.header.unit = <<>>
              /\ result.value.header.includes = <<>>

\* [l/*.l, l/a.l] comes back as the two files of l and then a.l again
C23_Witness ==
    /\ HeaderParsed
    /\ IncludeList = <<YStr(<<"l", "/", "*", ".", "l">>), YStr(<<"l", "/", "a", ".", "l">>)>>
    /\ Len(result.value.header.includes) = 3
    /\ result.value.header.includes[3] = <<"/", "a", "/", "l", "/", "a", ".", "l">>

\* without a Header section
C23_NoHeader ==
    /\ HeaderParsed
    /\ SectionOf("Header") = Absent
    /\ result.value.header = Header0

(***************************************************************************)
(* Properties of the defaults of ChipletDef and Header                     *)
(***************************************************************************)
\* the k-th chiplet as written and as parsed
ChipletNode(k) == EntriesOf("ChipletDef")[k][2]

ParsedChiplet(k) == result.value.chiplet_defs[k][2]

\* the fields of ChipletDef that a key of the entry sets
FieldsOf(key) ==
    CASE key = "design_area" -> {"design_width", "design_height"}
      [] key = "seal_ring_width" ->
            {"seal_ring_left", "seal_ring_bottom", "seal_ring_right", "seal_ring_top"}
      [] key = "scribe_line_remaining_width" ->
            {"scribe_line_left", "scribe_line_bottom", "scribe_line_right", "scribe_line_top"}
      [] key = "thickness" -> {"thickness"}
      [] key = "shrink" -> {"shrink"}

NumericKeys ==
    {"design_area", "seal_ring_width", "scribe_line_remaining_width", "thickness", "shrink"}

DbvParsed == pc = "done" /\ call = "dbv" /\ result.kind = "return"

\* C24: in what a DBV parse returns, every numeric field of a chiplet whose
\* key the entry does not give is -1.0, and tsv is false when not given,
\* whatever other keys the entry gives; the precision of the header is 1
\* when the Header or its precision is not given.
C24_Defaults ==
    DbvParsed =>
        /\ \A k \in 1..Len(EntriesOf("ChipletDef")) :
              /\ \A key \in NumericKeys :
                    ~HasField(ChipletNode(k), key) =>
                        \A field \in FieldsOf(key) : ParsedChiplet(k)[field] = MinusOne
              /\ ~HasField(ChipletNode(k), "tsv") => ParsedChiplet(k).tsv = FALSE
        /\ ~HasField(SectionOf("Header"), "precision") => result.value.header.precision = 1

\* cB gives thickness and seal_ring_width only, under a Header that gives
\* only a version
C24_Witness ==
    /\ DbvParsed
    /\ Len(EntriesOf("ChipletDef")) = 2
    /\ DictKeys(Value(ChipletNode(2))) = {"type", "thickness", "seal_ring_width"}
    /\ ParsedChiplet(2).thickness = [m |-> 7, e |-> 0]
    /\ ParsedChiplet(2).seal_ring_top = [m |-> 4, e |-> 0]
    /\ ParsedChiplet(2).shrink = MinusOne
    /\ ParsedChiplet(2).design_width = MinusOne
    /\ SectionOf("Header") # Absent
    /\ DictKeys(Value(SectionOf("Header"))) = {"version"}
    /\ result.value.header.precision = 1

(***************************************************************************)
(* The decoder's syntax errors and the errors of validation                *)
(***************************************************************************)
YamlPrefixes == { Lit("3DBV YAML parsing error: "), Lit("DBX YAML parsing error: ") }

\* the decoder raised on the text that parse_defines returned
DecoderFailed ==
    /\ call \in {"dbv", "dbx"}
    /\ pc = "done"
    /\ Unbalanced(content)

\* C25: when the decoder reports a syntax error on the macro-expanded text of
\* a DBV or DBX file, the call raises a ParserError whose message is "Parser
\* Error: " followed by "3DBV YAML parsing error: " for DBV and by "DBX YAML
\* parsing error: " for DBX and then the decoder's message, and logs it; a
\* ParserError of validation carries neither prefix
C25_DecoderErrorWrapped ==
    /\ DecoderFailed =>
           /\ result.kind = "raise"
           /\ result.exc = "ParserError"
           /\ result.msg =
                  <<Lit("Parser Error: "),
                    IF call = "dbv" THEN Lit("3DBV YAML parsing error: ")
                    ELSE Lit("DBX YAML parsing error: ")>> \o DecoderMessage
           /\ log # <<>>
           /\ log[Len(log)] = result.msg
    /\ (call \in {"dbv", "dbx"} /\ pc = "done" /\ result.kind = "raise" /\ ~DecoderFailed) =>
           \A i \in 1..Len(result.msg) : result.msg[i] \notin YamlPrefixes

\* a DBV file whose text the value of a macro made malformed
C25_Witness ==
    /\ DecoderFailed
    /\ call = "dbv"
    /\ defines # <<>>
    /\ result.kind = "raise"

\* a ParserError of validation reached the caller in the same specification
C25_ValidationError ==
    /\ call = "dbx"
    /\ pc = "done"
    /\ ~DecoderFailed
    /\ result.kind = "raise"
    /\ result.exc = "ParserError"

(***************************************************************************)
(* What Stack processing leaves of the instances of ChipletInst            *)
(***************************************************************************)
\* the instance names the Stack section gives a placement
StackedInstances == { StackEntries[k][1] : k \in 1..Len(StackEntries) }

\* the instance that _parse_chiplet_inst alone makes of the ChipletInst entry
AsDeclared(name) ==
    parse_chiplet_inst(fs, current_file_path, ChipletInst0(name),
                       Get(SectionOf("ChipletInst"), name)).value

\* C26: after a DBX parse that returns data, the keys of chiplet_instances are
\* the keys of the ChipletInst section (none when the section is absent), the
\* name, reference and external of each instance are those parsed from its
\* ChipletInst entry, and an instance that Stack does not name has the
\* placement loc = (0, 0), z = 0.0, orient = "".
C26_StackKeepsInstances ==
    (call = "dbx" /\ pc = "done" /\ result.kind = "return")
    => /\ DictKeys(result.value.chiplet_instances) = DeclaredInstances
       /\ \A name \in DeclaredInstances :
             /\ DictGet(result.value.chiplet_instances, name).name = name
             /\ DictGet(result.value.chiplet_instances, name).reference
                  = AsDeclared(name).reference
             /\ DictGet(result.value.chiplet_instances, name).external
                  = AsDeclared(name).external
             /\ name \notin StackedInstances
                => /\ DictGet(result.value.chiplet_instances, name).loc
                        = [x |-> Float0, y |-> Float0]
                   /\ DictGet(result.value.chiplet_instances, name).z = Float0
                   /\ DictGet(result.value.chiplet_instances, name).orient = <<>>

\* i1 and i2 are declared, i2 with an external sdc_file; Stack places i1 only
C26_Witness ==
    /\ call = "dbx"
    /\ pc = "done"
    /\ result.kind = "return"
    /\ DeclaredInstances = {"i1", "i2"}
    /\ StackedInstances = {"i1"}
    /\ DictGet(result.value.chiplet_instances, "i1").z = [m |-> 15, e |-> 1]
    /\ DictGet(result.value.chiplet_instances, "i2").external.sdc_file # <<>>
    /\ DictGet(result.value.chiplet_instances, "i2").z = Float0

(***************************************************************************)
(* Two interleaved parse_file calls of one parser                          *)
(***************************************************************************)
\* the call that runs has ended with another outcome than alone
DiffersFromAlone ==
    /\ pc = "done"
    /\ result # NoResult
    /\ result \notin parse_file(call, fs, filename_arg)

\* C27: in two parse_file calls of one DbvParser or DbxParser that
\* interleave, the call that resumes finds the current_file_path and the
\* macro table that the other call left in the parser, and a call ends with
\* another outcome than alone only after the other call has entered
\* parse_file; the state in which it does so is C27_Witness
C27_SharedContext ==
    /\ [][ SwitchShared => /\ current_file_path' = current_file_path
                           /\ defines' = defines ]_vars
    /\ [](DiffersFromAlone => other.pc # "parse_file")

\* the call on /a/d.3dbx defined A, then the call on /r/f.3dbx set
\* current_file_path and cleared the table: the first call left `A`
\* unexpanded and resolved it in /r, where alone it includes /a/l/b.l
C27_Witness ==
    /\ DiffersFromAlone
    /\ call = "dbx"
    /\ filename_arg = <<"/", "a", "/", "d", ".", "3", "d", "b", "x">>
    /\ other.filename_arg = <<"/", "r", "/", "f", ".", "3", "d", "b", "x">>
    /\ processed_lines = <<IncludeOpen \o <<"A">> \o IncludeClose>>
    /\ result.kind = "return"
    /\ result.value.header.includes = << <<"/", "r", "/", "A">> >>
    /\ Return([DbxData0 EXCEPT !.header.includes = << <<"/", "a", "/", "l", "/", "b", ".", "l">> >>])
         \in parse_file(call, fs, filename_arg)

(***************************************************************************)
(* Termination of parse_defines and the order of its replacements          *)
(***************************************************************************)
\* the directive line binds a key
Binds(line) == IsDirective(line) /\ Len(DefineParts(line)) = 2

\* the keys that the first n lines define, in the order of their first
\* definition
RECURSIVE FirstDefined(_)
FirstDefined(n) ==
    IF n = 0 THEN <<>>
    ELSE IF /\ Binds(lines[n])
            /\ \A i \in 1..Len(FirstDefined(n - 1)) :
                  FirstDefined(n - 1)[i] # strip(DefineParts(lines[n])[1])
    THEN Append(FirstDefined(n - 1), strip(DefineParts(lines[n])[1]))
    ELSE FirstDefined(n - 1)

\* the last of the first n lines that defines key
LastDefinition(key, n) ==
    CHOOSE j \in 1..n :
        /\ Binds(lines[j]) /\ strip(DefineParts(lines[j])[1]) = key
        /\ \A k \in (j + 1)..n : ~(Binds(lines[k]) /\ strip(DefineParts(lines[k])[1]) = key)

\* each key replaced once, in the given order, by its latest value
RECURSIVE AppliedOnce(_, _, _)
AppliedOnce(line, keys, n) ==
    IF keys = <<>> THEN line
    ELSE AppliedOnce(str_replace(line, keys[1],
                                 strip(DefineParts(lines[LastDefinition(keys[1], n)])[2])),
                     Tail(keys), n)

\* C28: parse_defines ends on every input, also when the value of a macro
\* holds its own key or the key of another macro; each non-directive line
\* comes out with every macro defined above it applied once, in the order in
\* which the keys were first defined and with the value of the latest
\* definition, and the output has one line for each input line that is no
\* directive
C28_TerminatesInOrder ==
    /\ <>(pc = "done")
    /\ [](JustResolved =>
             LastOut = AppliedOnce(LastLine, FirstDefined(line_number), line_number))
    /\ [](pc \in {"for_line", "done"} =>
             Len(processed_lines) =
                 Cardinality({ j \in 1..line_number : ~IsDirective(lines[j]) }))
    /\ [](pc = "done" => result = Return(join_lines(processed_lines)))

\* `#!define A AA` turns the A of the later line `AB` into AA, once
C28_Witness ==
    /\ pc = "done"
    /\ lines = << DefinePrefix \o <<" ", "A", " ", "A", "A">>, <<"A", "B">> >>
    /\ processed_lines = << <<"A", "A", "B">> >>
    /\ result = Return(<<"A", "A", "B">>)

\* A is defined, then B, then A again: on `AB` A is replaced first, as it has
\* kept its place before B, and the A that B brings stays
C28_RedefinedKeepsPlace ==
    /\ pc = "done"
    /\ lines = << DefinePrefix \o <<" ", "A", " ", "A", "A">>,
                  DefinePrefix \o <<" ", "B", " ", "A">>,
                  DefinePrefix \o <<" ", "A", " ", "A", "A">>, <<"A", "B">> >>
    /\ processed_lines = << <<"A", "A", "A">> >>

(***************************************************************************)
(* Required keys that are present with a null value                        *)
(***************************************************************************)
\* the key is present in the node and its value is null
NullField(node, key) == HasField(node, key) /\ Get(node, key) = YNull

\* every required key of the document is present, whatever its value, and
\* Stack names declared instances only
RequiredKeysPresent ==
    /\ HasField(SectionOf("Design"), "name")
    /\ \A i \in 1..Len(InstanceEntries) : HasField(InstanceEntries[i][2], "reference")
    /\ \A k \in 1..Len(StackEntries) :
          /\ StackEntries[k][1] \in DeclaredInstances
          /\ \A key \in {"loc", "z", "orient"} : HasField(StackEntries[k][2], key)
    /\ \A c \in 1..Len(ConnectionEntries) :
          \A key \in {"top", "bot"} : HasField(ConnectionEntries[c][2], key)

\* C29: a DBX document whose required keys are all present is accepted also
\* where their values are null; a null Design name, a null ChipletInst
\* reference and a null Stack orient are stored as the empty string, and a
\* null Connection top or bot is stored as null
C29_NullValuesAccepted ==
    (call = "dbx" /\ pc = "done")
    => /\ RequiredKeysPresent => result.kind = "return"
       /\ result.kind = "return" =>
             /\ NullField(SectionOf("Design"), "name") => result.value.design.name = <<>>
             /\ \A i \in 1..Len(InstanceEntries) :
                   NullField(InstanceEntries[i][2], "reference") =>
                       DictGet(result.value.chiplet_instances,
                               InstanceEntries[i][1]).reference = <<>>
             /\ \A k \in 1..Len(StackEntries) :
                   NullField(StackEntries[k][2], "orient") =>
                       DictGet(result.value.chiplet_instances,
                               StackEntries[k][1]).orient = <<>>
             /\ \A c \in 1..Len(ConnectionEntries) :
                   /\ NullField(ConnectionEntries[c][2], "top") =>
                          DictGet(result.value.connections,
                                  ConnectionEntries[c][1]).top = None
                   /\ NullField(ConnectionEntries[c][2], "bot") =>
                          DictGet(result.value.connections,
                                  ConnectionEntries[c][1]).bot = None

\* a document with a null name, reference, orient, top and bot is returned
C29_Witness ==
    /\ call = "dbx"
    /\ pc = "done"
    /\ result.kind = "return"
    /\ NullField(SectionOf("Design"), "name")
    /\ NullField(InstanceEntries[1][2], "reference")
    /\ NullField(StackEntries[1][2], "orient")
    /\ NullField(ConnectionEntries[1][2], "top")
    /\ NullField(ConnectionEntries[1][2], "bot")
    /\ result.value.design.name = <<>>
    /\ DictGet(result.value.chiplet_instances, "i1").reference = <<>>
    /\ DictGet(result.value.chiplet_instances, "i1").orient = <<>>
    /\ DictGet(result.value.connections, "c1").top = None
    /\ DictGet(result.value.connections, "c1").bot = None

(***************************************************************************)
(* An include that is no list, and the entries of a list that are skipped  *)
(***************************************************************************)
\* a DBV parse has ended on a document whose Header gives `include`
IncludeGiven ==
    /\ call = "dbv"
    /\ pc = "done"
    /\ HasField(SectionOf("Header"), "include")

IncludeNode == Get(SectionOf("Header"), "include")

\* the Header with the null and the empty entries taken out of its list
FilteredHeader ==
    YMap([i \in 1..Len(Value(SectionOf("Header"))) |->
            IF Value(SectionOf("Header"))[i][1] = "include"
            THEN <<"include", YList(SelectSeq(IncludeList, LAMBDA e : ~EmptyEntry(e)))>>
            ELSE Value(SectionOf("Header"))[i]])

\* the document with that Header
FilteredDocument ==
    YMap([i \in 1..Len(Value(LoadedRoot(root))) |->
            IF Value(LoadedRoot(root))[i][1] = "Header" THEN <<"Header", FilteredHeader>>
            ELSE Value(LoadedRoot(root))[i]])

NothingIncluded ==
    /\ result.kind = "return"
    /\ result.value.header.includes = <<>>
    /\ log = <<>>

\* C30: a Header include that is no list (a scalar, null) is ignored: the
\* parse returns an empty includes list and logs nothing; so does a list of
\* null and empty entries only, and a list has the outcome of the list
\* without its null and empty entries; a scalar LEF_file of a chiplet's
\* external section, in contrast, gives what resolve_paths returns for it
C30_IncludeOnlyAsList ==
    /\ IncludeGiven =>
          /\ IncludeNode.t # "list" => NothingIncluded
          /\ (IncludeNode.t = "list" /\ \A i \in 1..Len(IncludeList) : EmptyEntry(IncludeList[i]))
                => NothingIncluded
          /\ IncludeNode.t = "list" =>
                result \in dbv_parse_yaml_content(fs, current_file_path, FilteredDocument)
          /\ result.kind = "return" => log = <<>>
    /\ (call = "dbv" /\ ExternalParsed /\ HasField(ExternalNode, "LEF_file")
          /\ Get(ExternalNode, "LEF_file").t = "str")
       => ParsedExternal.lef_files \in Expansions(Get(ExternalNode, "LEF_file"))

\* the scalar include l/a.l leaves includes empty
C30_Witness ==
    /\ IncludeGiven
    /\ IncludeNode = YStr(<<"l", "/", "a", ".", "l">>)
    /\ NothingIncluded

\* of the list [null, l/a.l] only the file is included
C30_NullEntrySkipped ==
    /\ IncludeGiven
    /\ IncludeNode = YList(<<YNull, YStr(<<"l", "/", "a", ".", "l">>)>>)
    /\ result.kind = "return"
    /\ result.value.header.includes = << <<"/", "a", "/", "l", "/", "a", ".", "l">> >>
    /\ log = <<>>

====
